---- MODULE Spec2Model ----
(***************************************************************************)
(* Model of the Traktor reconciliation engine of harmony (src-tauri).      *)
(*                                                                         *)
(*   Spec       the sync orchestrator sync_traktor_nml run against the      *)
(*              SQLite store, one step per phase, one run at a time        *)
(*   SpecMerge  the pure function merge_track on drawn pairs of tracks     *)
(*   SpecCue    the pure function merge_cue_points on drawn cue lists      *)
(*   SpecCueMap, SpecRating, SpecPath, SpecKey, SpecTree, SpecEntry        *)
(*              the pure functions of the mappers on drawn inputs          *)
(*                                                                         *)
(* Rust strings are sequences of one-character strings, Option<T> is a     *)
(* sequence of length 0 (None) or 1 (Some).                                *)
(***************************************************************************)
EXTENDS Integers, Sequences, FiniteSets, TLC

VARIABLES
  \* ---- merge_track harness (SpecMerge)
  m_harmony, m_traktor, m_strategy, m_result, m_again, m_pc,
  \* ---- merge_cue_points harness (SpecCue)
  c_harmony, c_traktor, c_track_id, c_strategy, c_result, c_pc,
  \* ---- mapper functions (SpecCueMap, SpecRating, SpecPath, SpecKey, SpecTree, SpecEntry)
  f_in,       \* the arguments drawn for the function
  f_out,      \* what the function returned
  f_back,     \* what the second function applied returned
  f_pc,       \* "ready", then the name of the step taken last
  \* ---- sync_traktor_nml and the store (Spec)
  db,         \* the SQLite tables: track, cue, playlist, playlistTrack, folder
  nml_file,   \* what the file at nml_path holds
  args,       \* merge_strategy, cue_merge_strategy, should_sync_playlists
  pc,         \* the phase the run is about to enter
  run,        \* number of runs started
  local,      \* the local variables of the run
  events,     \* the progress events emitted by the run
  calls,      \* the store calls made by the run, in order
  result,     \* what the run returned
  db_start,   \* the store as it was when the run started
  prev_result        \* what the run before this one returned

mergeVars == <<m_harmony, m_traktor, m_strategy, m_result, m_again, m_pc>>
cueVars == <<c_harmony, c_traktor, c_track_id, c_strategy, c_result, c_pc>>
mapVars == <<f_in, f_out, f_back, f_pc>>
syncVars == <<db, nml_file, args, pc, run, local, events, calls, result, db_start, prev_result>>

\* ------------------------------------------------------------------------
\* Bounds
\* ------------------------------------------------------------------------
\* number of fields of a drawn track that depart from its template
MaxVaried == 1
\* longest cue list handed to merge_cue_points
MaxCues == 2
\* most ENTRY elements in the collection of a drawn NML file
MaxEntries == 2
\* highest hot cue slot of a drawn cue marker
MaxSlot == 1
\* most runs of sync_traktor_nml in a row
MaxRuns == 2

\* ------------------------------------------------------------------------
\* Option and string helpers
\* ------------------------------------------------------------------------
None == <<>>
Some(x) == <<x>>
IsSome(o) == o # <<>>
Unwrap(o) == o[1]

WhiteSpace == {" ", "\t", "\n"}

RECURSIVE TrimStart(_)
TrimStart(s) ==
  IF s = <<>> THEN <<>>
  ELSE IF Head(s) \in WhiteSpace THEN TrimStart(Tail(s)) ELSE s

RECURSIVE TrimEnd(_)
TrimEnd(s) ==
  IF s = <<>> THEN <<>>
  ELSE IF s[Len(s)] \in WhiteSpace THEN TrimEnd(SubSeq(s, 1, Len(s) - 1)) ELSE s

\* str::trim
Trim(s) == TrimEnd(TrimStart(s))

\* str::replace: every non-overlapping occurrence, left to right
RECURSIVE ReplaceAll(_, _, _)
ReplaceAll(s, from, to) ==
  IF Len(s) < Len(from) THEN s
  ELSE IF SubSeq(s, 1, Len(from)) = from
       THEN to \o ReplaceAll(SubSeq(s, Len(from) + 1, Len(s)), from, to)
       ELSE <<Head(s)>> \o ReplaceAll(Tail(s), from, to)

\* str::trim_end_matches(char)
RECURSIVE TrimEndMatches(_, _)
TrimEndMatches(s, c) ==
  IF s = <<>> THEN <<>>
  ELSE IF s[Len(s)] = c THEN TrimEndMatches(SubSeq(s, 1, Len(s) - 1), c) ELSE s

\* str::split(char): the pieces between the separators
RECURSIVE SplitFrom(_, _, _)
SplitFrom(s, c, piece) ==
  IF s = <<>> THEN <<piece>>
  ELSE IF Head(s) = c THEN <<piece>> \o SplitFrom(Tail(s), c, <<>>)
       ELSE SplitFrom(Tail(s), c, Append(piece, Head(s)))

Split(s, c) == SplitFrom(s, c, <<>>)

UpperCase == <<"A", "B", "C", "D", "E", "F", "G", "H", "I", "J", "K", "L", "M",
               "N", "O", "P", "Q", "R", "S", "T", "U", "V", "W", "X", "Y", "Z">>
LowerCase == <<"a", "b", "c", "d", "e", "f", "g", "h", "i", "j", "k", "l", "m",
               "n", "o", "p", "q", "r", "s", "t", "u", "v", "w", "x", "y", "z">>

LowerChar(c) ==
  IF \E i \in 1..Len(UpperCase) : UpperCase[i] = c
  THEN LowerCase[CHOOSE i \in 1..Len(UpperCase) : UpperCase[i] = c]
  ELSE c

\* str::to_lowercase
ToLowercase(s) == [i \in 1..Len(s) |-> LowerChar(s[i])]

UpperChar(c) ==
  IF \E i \in 1..Len(LowerCase) : LowerCase[i] = c
  THEN UpperCase[CHOOSE i \in 1..Len(LowerCase) : LowerCase[i] = c]
  ELSE c

\* str::to_uppercase
ToUppercase(s) == [i \in 1..Len(s) |-> UpperChar(s[i])]

\* str::rfind: the 0-based index of the last occurrence, if any
RFind(s, pat) ==
  LET hits == {i \in 0..(Len(s) - Len(pat)) : SubSeq(s, i + 1, i + Len(pat)) = pat}
  IN IF hits = {} THEN None
     ELSE Some(CHOOSE i \in hits : \A j \in hits : j <= i)

\* [&str]::join
RECURSIVE Join(_, _)
Join(parts, sep) ==
  IF parts = <<>> THEN <<>>
  ELSE IF Len(parts) = 1 THEN parts[1]
  ELSE parts[1] \o sep \o Join(Tail(parts), sep)

Digits == <<"0", "1", "2", "3", "4", "5", "6", "7", "8", "9">>
IsDigit(c) == \E i \in 1..Len(Digits) : Digits[i] = c
DigitValue(c) == (CHOOSE i \in 1..Len(Digits) : Digits[i] = c) - 1
AllDigits(s) == \A i \in 1..Len(s) : IsDigit(s[i])

RECURSIVE DigitsValue(_)
DigitsValue(s) ==
  IF s = <<>> THEN 0
  ELSE 10 * DigitsValue(SubSeq(s, 1, Len(s) - 1)) + DigitValue(s[Len(s)])

\* str::parse::<i32>: an optional sign, then one or more digits
ParseI32(s) ==
  LET signed == s # <<>> /\ Head(s) \in {"+", "-"}
      body == IF signed THEN Tail(s) ELSE s
  IN IF body = <<>> \/ ~AllDigits(body) THEN None
     ELSE IF signed /\ Head(s) = "-" THEN Some(0 - DigitsValue(body))
     ELSE Some(DigitsValue(body))

\* str::parse::<u32>: an optional plus sign, then one or more digits
ParseU32(s) ==
  LET body == IF s # <<>> /\ Head(s) = "+" THEN Tail(s) ELSE s
  IN IF body = <<>> \/ ~AllDigits(body) THEN None ELSE Some(DigitsValue(body))

\* f64 values are kept in thousandths; the strings parsed are plain decimals
\* whose fraction digits after the third are zeros (no exponent, inf or nan;
\* negative zero is not told from zero)
Thousand == 10 * 10 * 10

FractionValue(frac) ==
  DigitsValue(SubSeq(frac \o <<"0", "0", "0">>, 1, 3))

\* str::parse::<f64> on [sign] digits [. digits] and [sign] . digits
ParseF64(s) ==
  LET signed == s # <<>> /\ Head(s) \in {"+", "-"}
      body == IF signed THEN Tail(s) ELSE s
      parts == Split(body, ".")
      int == parts[1]
      frac == IF Len(parts) = 2 THEN parts[2] ELSE <<>>
      mag == Thousand * DigitsValue(int) + FractionValue(frac)
  IN IF \/ Len(parts) > 2
        \/ ~AllDigits(int) \/ ~AllDigits(frac)
        \/ (int = <<>> /\ frac = <<>>)
        \/ \E i \in 4..Len(frac) : frac[i] # "0"
     THEN None
     ELSE IF signed /\ Head(s) = "-" THEN Some(0 - mag) ELSE Some(mag)

\* the decimal digits of a natural number
RECURSIVE NatToString(_)
NatToString(n) ==
  IF n < 10 THEN <<Digits[n + 1]>>
  ELSE NatToString(n \div 10) \o <<Digits[(n % 10) + 1]>>

\* i32::to_string
I32ToString(n) == IF n < 0 THEN <<"-">> \o NatToString(0 - n) ELSE NatToString(n)

\* format!("{:.6}", ms) of a value held in thousandths
FormatF64(ms) ==
  LET mag == IF ms < 0 THEN 0 - ms ELSE ms
      frac == mag % Thousand
  IN (IF ms < 0 THEN <<"-">> ELSE <<>>)
       \o NatToString(mag \div Thousand) \o <<".">>
       \o <<Digits[(frac \div 100) + 1], Digits[((frac \div 10) % 10) + 1],
            Digits[(frac % 10) + 1]>>
       \o <<"0", "0", "0">>

\* f64::round of n/d for d > 0: to the nearest integer, halves away from zero
RoundDiv(n, d) ==
  IF n >= 0 THEN (2 * n + d) \div (2 * d) ELSE 0 - ((2 * (0 - n) + d) \div (2 * d))

\* integer division truncating toward zero
TruncDiv(n, d) == IF n >= 0 THEN n \div d ELSE 0 - ((0 - n) \div d)

\* ------------------------------------------------------------------------
\* track.rs, traktor/mapper.rs
\* ------------------------------------------------------------------------
\* the hexadecimal SHA-256 digest, taken to be collision-free
Sha256Hex(bytes) == <<"#">> \o bytes

\* an id that hashes the path as it is spelled
generate_id_case_sensitive(path) == Sha256Hex(path)

generate_id(path) == Sha256Hex(ToLowercase(path))

map_traktor_path_to_system(dir, file, volume) ==
  LET system_dir == TrimEndMatches(ReplaceAll(dir, <<"/", ":">>, <<"/">>), "/")
  IN IF volume # None
     THEN Unwrap(volume) \o system_dir \o <<"/">> \o file
     ELSE system_dir \o <<"/">> \o file

\* Path::file_name and Path::parent where / is the only separator, for paths
\* with no . or .. component: trailing separators are not part of the path
path_file_name(path) ==
  LET trimmed == TrimEndMatches(path, "/")
      last_slash == RFind(trimmed, <<"/">>)
  IN IF trimmed = <<>> THEN None
     ELSE IF last_slash = None THEN Some(trimmed)
     ELSE Some(SubSeq(trimmed, Unwrap(last_slash) + 2, Len(trimmed)))

path_parent(path) ==
  LET trimmed == TrimEndMatches(path, "/")
      last_slash == RFind(trimmed, <<"/">>)
  IN IF trimmed = <<>> THEN None
     ELSE IF last_slash = None THEN Some(<<>>)
     ELSE IF TrimEndMatches(SubSeq(trimmed, 1, Unwrap(last_slash)), "/") = <<>>
     THEN Some(<<"/">>)
     ELSE Some(TrimEndMatches(SubSeq(trimmed, 1, Unwrap(last_slash)), "/"))

map_system_path_to_traktor(system_path) ==
  LET normalized == ReplaceAll(system_path, <<"\\">>, <<"/">>)
      volume == IF Len(normalized) >= 2 /\ normalized[2] = ":"
                THEN ToUppercase(SubSeq(normalized, 1, 2)) ELSE <<>>
      file == IF path_file_name(system_path) = None THEN <<>>
              ELSE Unwrap(path_file_name(system_path))
      dir_path == IF path_parent(system_path) = None THEN <<"/">>
                  ELSE Unwrap(path_parent(system_path))
      parts == SelectSeq(Split(dir_path, "/"), LAMBDA part : part # <<>>)
  IN IF dir_path = <<"/">> \/ dir_path = <<>>
     THEN [dir |-> <<"/", ":">>, file |-> file, volume |-> volume]
     ELSE [dir |-> <<"/", ":">> \o Join(parts, <<"/", ":">>) \o <<"/", ":">>,
           file |-> file, volume |-> volume]

\* a conversion that drops the fraction instead of rounding
map_traktor_rating_truncating(ranking) ==
  IF ranking = None THEN 0
  ELSE LET v == ParseI32(Unwrap(ranking))
       IN IF v = None THEN 0 ELSE TruncDiv(Unwrap(v), 51)

map_traktor_rating(ranking) ==
  IF ranking = None THEN 0
  ELSE LET v == ParseI32(Unwrap(ranking))
       IN IF v = None THEN 0 ELSE RoundDiv(Unwrap(v), 51)

map_traktor_bpm(bpm) ==
  IF bpm = None THEN None
  ELSE LET v == ParseF64(Unwrap(bpm))
       IN IF v = None THEN None ELSE Some(RoundDiv(Unwrap(v), Thousand))

IsLeapYear(y) == (y % 4 = 0 /\ y % 100 # 0) \/ y % 400 = 0
DaysInMonth(y, m) ==
  IF m = 2 THEN (IF IsLeapYear(y) THEN 29 ELSE 28)
  ELSE IF m \in {4, 6, 9, 11} THEN 30 ELSE 31

\* the millisecond timestamp of midnight UTC of a date, kept as the date
parse_traktor_date(date_str) ==
  IF date_str = None THEN None
  ELSE LET parts == Split(Unwrap(date_str), "/")
       IN IF Len(parts) # 3 THEN None
          ELSE LET year == ParseI32(parts[1])
                   month == ParseU32(parts[2])
                   day == ParseU32(parts[3])
               IN IF year = None \/ month = None \/ day = None THEN None
                  ELSE IF /\ Unwrap(month) \in 1..12
                          /\ Unwrap(day) \in 1..DaysInMonth(Unwrap(year), Unwrap(month))
                       THEN Some(<<Unwrap(year), Unwrap(month), Unwrap(day)>>)
                       ELSE None

\* info.and_then(|i| i.<attr>): an attribute of the optional INFO element
InfoAttr(entry, attr) == IF entry.info = None THEN None ELSE Unwrap(entry.info)[attr]

map_traktor_entry_to_track(entry) ==
  LET path == map_traktor_path_to_system(entry.location.dir, entry.location.file,
                                         entry.location.volume)
      ranking == InfoAttr(entry, "ranking")
      rating ==
        IF ranking = None THEN None
        ELSE LET rating_value == map_traktor_rating(ranking)
             IN IF rating_value > 0
                THEN Some([rating |-> rating_value,
                           source |-> Some(<<"t", "r", "a", "k", "t", "o", "r">>)])
                ELSE None
      release_date == InfoAttr(entry, "release_date")
      year == IF release_date = None THEN None
              ELSE ParseI32(Split(Unwrap(release_date), "/")[1])
      bitrate_str == InfoAttr(entry, "bitrate")
      bitrate ==
        IF bitrate_str = None THEN None
        ELSE LET bps == ParseI32(Unwrap(bitrate_str))
             IN IF bps = None THEN None ELSE Some(TruncDiv(Unwrap(bps), Thousand))
      playtime ==
        IF InfoAttr(entry, "playtime_float") # None
        THEN InfoAttr(entry, "playtime_float") ELSE InfoAttr(entry, "playtime")
      duration ==
        IF playtime = None THEN 0
        ELSE LET seconds == ParseF64(Unwrap(playtime))
             IN IF seconds = None THEN 0 ELSE Unwrap(seconds)
  IN [id |-> generate_id(path),
      path |-> path,
      title |-> IF entry.title # None THEN Unwrap(entry.title) ELSE entry.location.file,
      artist |-> entry.artist,
      album |-> IF entry.album = None THEN None ELSE Unwrap(entry.album).title,
      genre |-> InfoAttr(entry, "genre"),
      year |-> year,
      duration |-> duration,
      bitrate |-> bitrate,
      comment |-> InfoAttr(entry, "comment"),
      bpm |-> IF entry.tempo = None THEN None ELSE map_traktor_bpm(Some(Unwrap(entry.tempo).bpm)),
      initial_key |-> InfoAttr(entry, "key"),
      rating |-> rating,
      label |-> InfoAttr(entry, "label"),
      waveform_peaks |-> None,
      added_at |-> parse_traktor_date(InfoAttr(entry, "import_date")),
      url |-> None]

\* ------------------------------------------------------------------------
\* cue_point.rs, traktor/cue_mapper.rs
\* ------------------------------------------------------------------------
map_traktor_cue_type(type_str) ==
  CASE type_str = <<"0">> -> "hot_cue"
    [] type_str = <<"1">> -> "fade_in"
    [] type_str = <<"2">> -> "fade_out"
    [] type_str = <<"3">> -> "load"
    [] type_str = <<"4">> -> "grid"
    [] type_str = <<"5">> -> "loop"
    [] OTHER -> "hot_cue"

\* an id that leaves the hot cue slot out of the hash
generate_cue_id_without_slot(track_id, position_ms, cue_type, hotcue_slot) ==
  <<"cue-", track_id, position_ms, cue_type>>

\* an id drawn anew in every run of the command, as a random uuid would be
generate_cue_id_per_run(track_id, position_ms, cue_type, hotcue_slot) ==
  <<"cue-", run, track_id, position_ms, cue_type, hotcue_slot>>

\* "cue-" and the hash of the four components, taken to be collision-free
generate_cue_id(track_id, position_ms, cue_type, hotcue_slot) ==
  <<"cue-", track_id, position_ms, cue_type, hotcue_slot>>

map_traktor_cue_to_harmony(traktor_cue, track_id) ==
  LET cue_type == map_traktor_cue_type(traktor_cue.cue_type)
      start == ParseF64(traktor_cue.start)
      position_ms == IF start = None THEN 0 ELSE Unwrap(start)
      hotcue_slot == IF traktor_cue.hotcue = None THEN None
                     ELSE ParseI32(Unwrap(traktor_cue.hotcue))
      name == IF /\ traktor_cue.name # None
                 /\ Unwrap(traktor_cue.name) # <<"n", ".", "n", ".">>
                 /\ Trim(Unwrap(traktor_cue.name)) # <<>>
              THEN traktor_cue.name ELSE None
      len == IF traktor_cue.len = None THEN None ELSE ParseF64(Unwrap(traktor_cue.len))
      length_ms == IF len # None /\ Unwrap(len) > 0 THEN len ELSE None
      order == IF traktor_cue.displ_order = None THEN None
               ELSE ParseI32(Unwrap(traktor_cue.displ_order))
  IN [id |-> generate_cue_id(track_id, position_ms, cue_type, hotcue_slot),
      track_id |-> track_id,
      cue_type |-> cue_type,
      position_ms |-> position_ms,
      length_ms |-> length_ms,
      hotcue_slot |-> hotcue_slot,
      name |-> IF cue_type = "grid" /\ traktor_cue.grid # None
               THEN Some(<<"G", "r", "i", "d", " ">> \o Unwrap(traktor_cue.grid).bpm)
               ELSE name,
      color |-> None,
      order |-> order]

map_traktor_cues_to_harmony(cue_data, track_id) ==
  IF cue_data = None THEN <<>>
  ELSE [i \in 1..Len(Unwrap(cue_data)) |->
          map_traktor_cue_to_harmony(Unwrap(cue_data)[i], track_id)]

map_harmony_cue_type(cue_type) ==
  CASE cue_type = "hot_cue" -> <<"0">>
    [] cue_type = "fade_in" -> <<"1">>
    [] cue_type = "fade_out" -> <<"2">>
    [] cue_type = "load" -> <<"3">>
    [] cue_type = "grid" -> <<"4">>
    [] cue_type = "loop" -> <<"5">>

\* str::strip_prefix
StripPrefix(s, prefix) ==
  IF Len(s) >= Len(prefix) /\ SubSeq(s, 1, Len(prefix)) = prefix
  THEN Some(SubSeq(s, Len(prefix) + 1, Len(s))) ELSE None

map_harmony_cue_to_traktor(cue) ==
  LET bpm_str == IF cue.cue_type = "grid" /\ cue.name # None
                 THEN StripPrefix(Unwrap(cue.name), <<"G", "r", "i", "d", " ">>)
                 ELSE None
  IN [cue_type |-> map_harmony_cue_type(cue.cue_type),
      start |-> FormatF64(cue.position_ms),
      len |-> IF cue.length_ms = None THEN None
              ELSE Some(FormatF64(Unwrap(cue.length_ms))),
      repeats |-> Some(<<"-", "1">>),
      hotcue |-> IF cue.hotcue_slot = None THEN None
                 ELSE Some(I32ToString(Unwrap(cue.hotcue_slot))),
      name |-> cue.name,
      displ_order |-> IF cue.order = None THEN None
                      ELSE Some(I32ToString(Unwrap(cue.order))),
      grid |-> IF bpm_str = None THEN None ELSE Some([bpm |-> Unwrap(bpm_str)])]

\* ------------------------------------------------------------------------
\* traktor/playlist_sync.rs
\* ------------------------------------------------------------------------
map_traktor_playlist_key_to_path(key) ==
  LET has_volume == Len(key) >= 2 /\ key[2] = ":"
      volume == IF has_volume THEN Some(SubSeq(key, 1, 2)) ELSE None
      traktor_path == IF has_volume THEN SubSeq(key, 3, Len(key)) ELSE key
      last_slash_colon == RFind(traktor_path, <<"/", ":">>)
      dir == IF last_slash_colon # None
             THEN SubSeq(traktor_path, 1, Unwrap(last_slash_colon) + 2) ELSE <<>>
      file == IF last_slash_colon # None
              THEN SubSeq(traktor_path, Unwrap(last_slash_colon) + 3, Len(traktor_path))
              ELSE traktor_path
  IN map_traktor_path_to_system(dir, file, volume)

\* "playlist-" and the hash of the name, taken to be collision-free
generate_playlist_id(name) == <<"playlist-">> \o name

\* filter_map over the ENTRY list: the keys that are present, converted
RECURSIVE playlist_track_paths(_)
playlist_track_paths(entries) ==
  IF entries = <<>> THEN <<>>
  ELSE LET key == Head(entries).primarykey.key
           rest == playlist_track_paths(Tail(entries))
       IN IF key # None THEN <<map_traktor_playlist_key_to_path(Unwrap(key))>> \o rest
          ELSE rest

map_traktor_playlist_to_harmony(node) ==
  IF node.playlist # None
  THEN [id |-> Unwrap(node.playlist).uuid,
        name |-> node.name,
        track_paths |-> playlist_track_paths(Unwrap(node.playlist).entry),
        folder_path |-> None]
  ELSE [id |-> generate_playlist_id(node.name),
        name |-> node.name,
        track_paths |-> <<>>,
        folder_path |-> None]

RECURSIVE map_traktor_node_to_folder_tree(_)
map_traktor_node_to_folder_tree(node) ==
  IF node.node_type = "PLAYLIST"
  THEN [name |-> node.name, is_folder |-> FALSE,
        playlist |-> Some(map_traktor_playlist_to_harmony(node)), children |-> <<>>]
  ELSE [name |-> node.name, is_folder |-> TRUE, playlist |-> None,
        children |->
          IF node.subnodes = None THEN <<>>
          ELSE [i \in 1..Len(Unwrap(node.subnodes).nodes) |->
                  map_traktor_node_to_folder_tree(Unwrap(node.subnodes).nodes[i])]]

RECURSIVE flatten_playlist_tree(_, _)
RECURSIVE flatten_children(_, _)
flatten_children(children, current_path) ==
  IF children = <<>> THEN <<>>
  ELSE flatten_playlist_tree(Head(children), Some(current_path))
         \o flatten_children(Tail(children), current_path)

\* a flattening that files a playlist under its own path
flatten_playlist_tree_own_path(tree, parent_path) ==
  LET current_path == IF parent_path # None
                      THEN Unwrap(parent_path) \o <<"/">> \o tree.name
                      ELSE <<"/">> \o tree.name
      own == IF ~tree.is_folder /\ tree.playlist # None
             THEN <<[Unwrap(tree.playlist) EXCEPT !.folder_path = Some(current_path)]>>
             ELSE <<>>
  IN own \o flatten_children(tree.children, current_path)

flatten_playlist_tree(tree, parent_path) ==
  LET current_path == IF parent_path # None
                      THEN Unwrap(parent_path) \o <<"/">> \o tree.name
                      ELSE <<"/">> \o tree.name
      own == IF ~tree.is_folder /\ tree.playlist # None
             THEN <<[Unwrap(tree.playlist) EXCEPT
                       !.folder_path = IF parent_path # None THEN parent_path
                                       ELSE Some(<<"/">>)]>>
             ELSE <<>>
  IN own \o flatten_children(tree.children, current_path)

extract_playlists_from_traktor(root_node) ==
  flatten_playlist_tree(map_traktor_node_to_folder_tree(root_node), None)

convert_to_harmony_playlist(imported) ==
  [id |-> imported.id, name |-> imported.name, folder_id |-> imported.folder_path]

\* ------------------------------------------------------------------------
\* conflict_resolver.rs
\* ------------------------------------------------------------------------
SmartMerge == "SmartMerge"
TraktorWins == "TraktorWins"
HarmonyWins == "HarmonyWins"
MergeStrategy == {SmartMerge, TraktorWins, HarmonyWins}

Replace == "Replace"
CueMergeStrategy == {SmartMerge, Replace}

is_string_empty(value) ==
  IF value = None THEN TRUE ELSE Trim(Unwrap(value)) = <<>>

\* is_int_empty without its Some(0) arm
is_int_empty_zero_kept(value) == value = None

is_int_empty(value) ==
  IF value = None THEN TRUE
  ELSE IF Unwrap(value) = 0 THEN TRUE
  ELSE FALSE

\* the eleven fields merge_track processes, in the order of its code
MergeFields ==
  <<"title", "artist", "album", "genre", "year", "bpm", "initial_key",
    "rating", "comment", "bitrate", "label">>

OptStringFields == {"artist", "album", "genre", "initial_key", "comment", "label"}
OptIntFields == {"year", "bpm", "bitrate"}

\* the emptiness test merge_track applies to the field named f
field_is_empty(f, v) ==
  CASE f = "title" -> Trim(v) = <<>>
    [] f \in OptStringFields -> is_string_empty(v)
    [] f \in OptIntFields -> is_int_empty(v)
    [] f = "rating" -> v = None

\* merge_field whose TRAKTOR_WINS arm omits the emptiness test
merge_field_overwrites(acc, harmony, traktor, strategy, f) ==
  LET adopt ==
        IF strategy = TraktorWins
        THEN harmony[f] # traktor[f]
        ELSE field_is_empty(f, harmony[f]) /\ ~field_is_empty(f, traktor[f])
  IN IF adopt
     THEN [merged |-> [acc.merged EXCEPT ![f] = traktor[f]],
           fields_updated |-> Append(acc.fields_updated, f)]
     ELSE acc

\* merge_field whose TRAKTOR_WINS arm omits the comparison with the canonical value
merge_field_records_equal(acc, harmony, traktor, strategy, f) ==
  LET adopt ==
        IF strategy = TraktorWins
        THEN ~field_is_empty(f, traktor[f])
        ELSE field_is_empty(f, harmony[f]) /\ ~field_is_empty(f, traktor[f])
  IN IF adopt
     THEN [merged |-> [acc.merged EXCEPT ![f] = traktor[f]],
           fields_updated |-> Append(acc.fields_updated, f)]
     ELSE acc

\* merge_field whose SMART_MERGE arm omits the emptiness test on Traktor's value
merge_field_adopts_empty(acc, harmony, traktor, strategy, f) ==
  LET adopt ==
        IF strategy = TraktorWins
        THEN ~field_is_empty(f, traktor[f]) /\ harmony[f] # traktor[f]
        ELSE field_is_empty(f, harmony[f])
  IN IF adopt
     THEN [merged |-> [acc.merged EXCEPT ![f] = traktor[f]],
           fields_updated |-> Append(acc.fields_updated, f)]
     ELSE acc

\* one "// Field" block of merge_track
merge_field(acc, harmony, traktor, strategy, f) ==
  LET adopt ==
        IF strategy = TraktorWins
        THEN ~field_is_empty(f, traktor[f]) /\ harmony[f] # traktor[f]
        ELSE field_is_empty(f, harmony[f]) /\ ~field_is_empty(f, traktor[f])
  IN IF adopt
     THEN [merged |-> [acc.merged EXCEPT ![f] = traktor[f]],
           fields_updated |-> Append(acc.fields_updated, f)]
     ELSE acc

RECURSIVE merge_fields_from(_, _, _, _, _)
merge_fields_from(acc, harmony, traktor, strategy, i) ==
  IF i > Len(MergeFields) THEN acc
  ELSE merge_fields_from(merge_field(acc, harmony, traktor, strategy, MergeFields[i]),
                         harmony, traktor, strategy, i + 1)

\* merge_track without the HARMONY_WINS early return
merge_track_no_early_return(harmony, traktor, strategy) ==
  LET r == merge_fields_from([merged |-> harmony, fields_updated |-> <<>>],
                             harmony, traktor, strategy, 1)
  IN [merged |-> r.merged,
      has_changes |-> r.fields_updated # <<>>,
      fields_updated |-> r.fields_updated]

\* merge_track that starts from a copy of the Traktor track's identity
merge_track_traktor_identity(harmony, traktor, strategy) ==
  IF strategy = HarmonyWins
  THEN [merged |-> harmony, has_changes |-> FALSE, fields_updated |-> <<>>]
  ELSE LET start == [harmony EXCEPT !.path = traktor.path, !.added_at = traktor.added_at]
           r == merge_fields_from([merged |-> start, fields_updated |-> <<>>],
                                  harmony, traktor, strategy, 1)
       IN [merged |-> r.merged,
           has_changes |-> r.fields_updated # <<>>,
           fields_updated |-> r.fields_updated]

merge_track(harmony, traktor, strategy) ==
  IF strategy = HarmonyWins
  THEN [merged |-> harmony, has_changes |-> FALSE, fields_updated |-> <<>>]
  ELSE LET r == merge_fields_from([merged |-> harmony, fields_updated |-> <<>>],
                                  harmony, traktor, strategy, 1)
       IN [merged |-> r.merged,
           has_changes |-> r.fields_updated # <<>>,
           fields_updated |-> r.fields_updated]

\* a rebuild that leaves the cue's own track_id in place
retarget_cue_keeps_track(cue, track_id) == cue

\* the CuePoint { .. track_id: track_id .. } rebuild of merge_cue_points
retarget_cue(cue, track_id) ==
  [id |-> cue.id, track_id |-> track_id, cue_type |-> cue.cue_type,
   position_ms |-> cue.position_ms, length_ms |-> cue.length_ms,
   hotcue_slot |-> cue.hotcue_slot, name |-> cue.name, color |-> cue.color,
   order |-> cue.order]

\* merge_cue_points whose SMART_MERGE adds Traktor's cues to existing ones
merge_cue_points_appends(harmony_cues, traktor_cues, track_id, strategy) ==
  LET retargeted == [i \in 1..Len(traktor_cues) |-> retarget_cue(traktor_cues[i], track_id)]
      added == Len(traktor_cues)
      removed == IF strategy = Replace THEN Len(harmony_cues) ELSE 0
  IN [merged |-> IF strategy = Replace THEN retargeted ELSE harmony_cues \o retargeted,
      has_changes |-> (added > 0 \/ removed > 0),
      added |-> added, removed |-> removed]

merge_cue_points(harmony_cues, traktor_cues, track_id, strategy) ==
  IF strategy = SmartMerge /\ harmony_cues # <<>>
  THEN [merged |-> harmony_cues, has_changes |-> FALSE, added |-> 0, removed |-> 0]
  ELSE IF strategy = Replace \/ harmony_cues = <<>>
  THEN LET merged == [i \in 1..Len(traktor_cues) |-> retarget_cue(traktor_cues[i], track_id)]
           added == Len(traktor_cues)
           removed == IF strategy = Replace THEN Len(harmony_cues) ELSE 0
       IN [merged |-> merged, has_changes |-> (added > 0 \/ removed > 0),
           added |-> added, removed |-> removed]
  ELSE [merged |-> harmony_cues, has_changes |-> FALSE, added |-> 0, removed |-> 0]

\* ------------------------------------------------------------------------
\* database.rs: the tables are sets of rows; every operation returns the
\* table it leaves behind and whether it succeeded.  A statement may also fail
\* for a reason outside the model (I/O, lock): fail_at names the statement of
\* the call that does, 0 for none.  No call opens a transaction, so the
\* statements before a failing one stay committed.
\* ------------------------------------------------------------------------
RowsWith(rows, col, v) == {r \in rows : r[col] = v}

\* INSERT INTO track .. ON CONFLICT(id) DO UPDATE SET every column but path
\* and addedAt; path is UNIQUE
insert_track_row(rows, track) ==
  IF RowsWith(rows, "id", track.id) # {}
  THEN LET old == CHOOSE r \in rows : r.id = track.id
       IN [ok |-> TRUE,
           rows |-> (rows \ {old})
                      \cup {[track EXCEPT !.path = old.path, !.added_at = old.added_at]}]
  ELSE IF RowsWith(rows, "path", track.path) # {}
  THEN [ok |-> FALSE, rows |-> rows]
  ELSE [ok |-> TRUE, rows |-> rows \cup {track}]

RECURSIVE insert_tracks_from(_, _, _, _)
insert_tracks_from(rows, tracks, i, fail_at) ==
  IF i > Len(tracks) THEN [ok |-> TRUE, rows |-> rows]
  ELSE IF i = fail_at THEN [ok |-> FALSE, rows |-> rows]
  ELSE LET r == insert_track_row(rows, tracks[i])
       IN IF r.ok THEN insert_tracks_from(r.rows, tracks, i + 1, fail_at) ELSE r

insert_tracks(rows, tracks, fail_at) == insert_tracks_from(rows, tracks, 1, fail_at)

\* UPDATE track SET every column but addedAt WHERE id
update_track(rows, track, fails) ==
  IF fails THEN [ok |-> FALSE, rows |-> rows]
  ELSE IF RowsWith(rows, "id", track.id) = {} THEN [ok |-> TRUE, rows |-> rows]
  ELSE LET old == CHOOSE r \in rows : r.id = track.id
       IN IF \E r \in rows : r # old /\ r.path = track.path
          THEN [ok |-> FALSE, rows |-> rows]
          ELSE [ok |-> TRUE,
                rows |-> (rows \ {old}) \cup {[track EXCEPT !.added_at = old.added_at]}]

\* SELECT .. FROM cuePoint WHERE trackId = ?1 ORDER BY positionMs
RECURSIVE RowsByPosition(_)
RowsByPosition(rows) ==
  IF rows = {} THEN <<>>
  ELSE LET first == CHOOSE r \in rows : \A q \in rows : r.position_ms <= q.position_ms
       IN <<first>> \o RowsByPosition(rows \ {first})

get_cue_points_for_track(rows, track_id) == RowsByPosition(RowsWith(rows, "track_id", track_id))

\* INSERT INTO cuePoint .. ON CONFLICT(id) DO UPDATE SET every other column
RECURSIVE save_cue_points_from(_, _, _, _)
save_cue_points_from(rows, cue_points, i, fail_at) ==
  IF i > Len(cue_points) THEN [ok |-> TRUE, rows |-> rows]
  ELSE IF i = fail_at THEN [ok |-> FALSE, rows |-> rows]
  ELSE save_cue_points_from((rows \ RowsWith(rows, "id", cue_points[i].id)) \cup {cue_points[i]},
                            cue_points, i + 1, fail_at)

save_cue_points(rows, cue_points, fail_at) ==
  IF cue_points = <<>> THEN [ok |-> TRUE, rows |-> rows]
  ELSE save_cue_points_from(rows, cue_points, 1, fail_at)

\* playlist.folderId REFERENCES folder(id), with PRAGMA foreign_keys = ON
FolderKeyHolds(folders, folder_id) ==
  folder_id = None \/ RowsWith(folders, "id", Unwrap(folder_id)) # {}

get_playlist_by_id(playlists, playlist_id) ==
  IF RowsWith(playlists, "id", playlist_id) = {} THEN None
  ELSE Some(CHOOSE r \in playlists : r.id = playlist_id)

create_playlist(playlists, folders, playlist, fails) ==
  IF \/ fails
     \/ RowsWith(playlists, "id", playlist.id) # {}
     \/ ~FolderKeyHolds(folders, playlist.folder_id)
  THEN [ok |-> FALSE, rows |-> playlists]
  ELSE [ok |-> TRUE, rows |-> playlists \cup {playlist}]

update_playlist(playlists, folders, playlist, fails) ==
  IF fails THEN [ok |-> FALSE, rows |-> playlists]
  ELSE IF RowsWith(playlists, "id", playlist.id) = {} THEN [ok |-> TRUE, rows |-> playlists]
  ELSE IF ~FolderKeyHolds(folders, playlist.folder_id)
  THEN [ok |-> FALSE, rows |-> playlists]
  ELSE [ok |-> TRUE, rows |-> (playlists \ RowsWith(playlists, "id", playlist.id)) \cup {playlist}]

\* DELETE FROM playlistTrack WHERE playlistId, then one INSERT per track id
\* (playlistId and trackId are foreign keys); the random row id is left out
RECURSIVE insert_playlist_tracks_from(_, _, _, _, _, _, _)
insert_playlist_tracks_from(rows, playlists, tracks, playlist_id, track_ids, i, fail_at) ==
  IF i > Len(track_ids) THEN [ok |-> TRUE, rows |-> rows]
  ELSE IF \/ i + 1 = fail_at
          \/ RowsWith(playlists, "id", playlist_id) = {}
          \/ RowsWith(tracks, "id", track_ids[i]) = {}
  THEN [ok |-> FALSE, rows |-> rows]
  ELSE insert_playlist_tracks_from(
         rows \cup {[playlist_id |-> playlist_id, track_id |-> track_ids[i], order |-> i - 1]},
         playlists, tracks, playlist_id, track_ids, i + 1, fail_at)

set_playlist_tracks(rows, playlists, tracks, playlist_id, track_ids, fail_at) ==
  IF fail_at = 1 THEN [ok |-> FALSE, rows |-> rows]
  ELSE insert_playlist_tracks_from(rows \ RowsWith(rows, "playlist_id", playlist_id),
                                   playlists, tracks, playlist_id, track_ids, 1, fail_at)

\* ------------------------------------------------------------------------
\* commands/traktor.rs: sync_traktor_nml, one step per phase
\* ------------------------------------------------------------------------
\* a body that saves the cue points before it saves the tracks
PhaseOrder_cues_first ==
  <<"parse", "convert", "match", "merge", "cues", "insert", "update", "playlists", "complete">>

\* a body that reads the tracks of the store before it parses the file
PhaseOrder_match_first ==
  <<"match", "parse", "convert", "merge", "insert", "update", "cues", "playlists", "complete">>

\* a body that syncs the playlists before it saves the cue points
PhaseOrder_playlists_first ==
  <<"parse", "convert", "match", "merge", "insert", "update", "playlists", "cues", "complete">>

\* the phases of a run, in the order the function body goes through them
PhaseOrder ==
  <<"parse", "convert", "match", "merge", "insert", "update", "cues", "playlists", "complete">>

PhaseAfter(phase) ==
  LET i == CHOOSE k \in 1..Len(PhaseOrder) : PhaseOrder[k] = phase
  IN IF i = Len(PhaseOrder) THEN "done" ELSE PhaseOrder[i + 1]

\* the ? operator with every store call and with the parse ignoring the error
after_call_unchecked(ok, next) == next

\* the ? operator: an Err returns from the function at once
after_call(ok, next) == IF ok THEN next ELSE "failed"

\* emit_progress: a failed emit is only logged
emit_progress(evs, phase, progress) == Append(evs, [phase |-> phase, progress |-> progress])

\* base + (idx / total) * span, in whole percent
progress_at(base, idx, total, span) == base + (idx * span) \div total

Call(op, ok) == [op |-> op, ok |-> ok]

EmptyMap == [f \in {} |-> 0]

\* *map.entry(key).or_insert(0) += 1
CountUp(map, key) ==
  IF key \in DOMAIN map THEN [map EXCEPT ![key] = @ + 1] ELSE (key :> 1) @@ map

RECURSIVE CountAll(_, _)
CountAll(map, keys) ==
  IF keys = <<>> THEN map ELSE CountAll(CountUp(map, Head(keys)), Tail(keys))

NewStats ==
  [strategy |-> args.merge_strategy, tracks_processed |-> 0, tracks_matched |-> 0,
   tracks_imported |-> 0, tracks_updated |-> 0, tracks_skipped |-> 0,
   fields_updated |-> EmptyMap, cue_points_synced |-> 0, playlists_imported |-> 0,
   playlist_tracks_linked |-> 0]

NewLocal ==
  [nml |-> None, traktor_tracks |-> <<>>, traktor_cues_by_path |-> EmptyMap,
   existing_tracks |-> {}, tracks_to_import |-> <<>>, tracks_to_update |-> <<>>,
   cues_to_save |-> <<>>, stats |-> NewStats]

Ok(stats) == Some([ok |-> TRUE, stats |-> Some(stats), error |-> "none"])
Err(kind) == Some([ok |-> FALSE, stats |-> None, error |-> kind])

\* what the step leaves in pc and result when its last fallible call returned ok
Proceed(ok, phase, kind) ==
  /\ pc' = after_call(ok, PhaseAfter(phase))
  /\ result' = IF pc' = "failed" THEN Err(kind) ELSE result

\* the command is invoked (again) with the same arguments on the same file
StartSync ==
  /\ pc \in {"idle", "done", "failed"}
  /\ run < MaxRuns
  /\ run' = run + 1
  /\ pc' = PhaseOrder[1]
  /\ local' = NewLocal
  /\ events' = <<>>
  /\ calls' = <<>>
  /\ prev_result' = result
  /\ result' = None
  /\ db_start' = db
  /\ UNCHANGED <<db, nml_file, args, mergeVars, cueVars, mapVars>>

\* phase 1: the file is read and deserialized, or read_to_string fails (Io),
\* or the deserializer does (Xml)
ParseNml ==
  /\ pc = "parse"
  /\ events' = emit_progress(events, "Parsing NML", 0)
  /\ \E outcome \in {"parsed", "Io", "Xml"} :
       /\ local' = [local EXCEPT !.nml = IF outcome = "parsed" THEN Some(nml_file) ELSE None]
       /\ Proceed(outcome = "parsed", "parse", outcome)
  /\ UNCHANGED <<db, nml_file, args, run, calls, db_start, prev_result, mergeVars, cueVars, mapVars>>

EntriesOf(l) == IF l.nml = None THEN <<>> ELSE Unwrap(l.nml).entry

EntryCues(entry, track) ==
  IF entry.cue_v2 # <<>> THEN map_traktor_cues_to_harmony(Some(entry.cue_v2), track.id)
  ELSE <<>>

\* the events of a loop that emits at every idx divisible by step
RECURSIVE LoopEvents(_, _, _, _, _, _, _)
LoopEvents(evs, phase, base, span, step, idx, total) ==
  IF idx >= total THEN evs
  ELSE LoopEvents(IF idx % step = 0
                  THEN emit_progress(evs, phase, progress_at(base, idx, total, span))
                  ELSE evs,
                  phase, base, span, step, idx + 1, total)

\* phase 2: every entry becomes a track, its cues are filed under the path
ConvertEntries ==
  /\ pc = "convert"
  /\ LET entry == EntriesOf(local)
         traktor_tracks == [i \in 1..Len(entry) |-> map_traktor_entry_to_track(entry[i])]
         cue_points == [i \in 1..Len(entry) |-> EntryCues(entry[i], traktor_tracks[i])]
         with_cues == {i \in 1..Len(entry) : cue_points[i] # <<>>}
         paths == {traktor_tracks[i].path : i \in with_cues}
         last(path) == CHOOSE i \in with_cues :
                         /\ traktor_tracks[i].path = path
                         /\ \A j \in with_cues : traktor_tracks[j].path = path => j <= i
     IN /\ local' = [local EXCEPT !.traktor_tracks = traktor_tracks,
                                  !.traktor_cues_by_path =
                                     [path \in paths |-> cue_points[last(path)]]]
        /\ events' = LoopEvents(emit_progress(events, "Processing Tracks", 5),
                                "Processing Tracks", 5, 15, 100, 0, Len(entry))
  /\ pc' = PhaseAfter("convert")
  /\ UNCHANGED <<db, nml_file, args, run, calls, result, db_start, prev_result, mergeVars, cueVars, mapVars>>

\* phase 3: the tracks of the store are read
MatchTracks ==
  /\ pc = "match"
  /\ events' = emit_progress(events, "Matching Tracks", 20)
  /\ \E ok \in BOOLEAN :
       /\ calls' = Append(calls, Call("get_all_tracks", ok))
       /\ local' = [local EXCEPT !.existing_tracks = IF ok THEN db.track ELSE {}]
       /\ Proceed(ok, "match", "Database")
  /\ UNCHANGED <<db, nml_file, args, run, db_start, prev_result, mergeVars, cueVars, mapVars>>

\* traktor_cues_by_path.get(path).cloned().unwrap_or_default()
cues_by_path(path) ==
  IF path \in DOMAIN local.traktor_cues_by_path THEN local.traktor_cues_by_path[path]
  ELSE <<>>

\* a matched track: the outcome of merge_track is counted
count_merge(acc, merge_result) ==
  IF merge_result.has_changes
  THEN [acc EXCEPT !.stats.tracks_matched = @ + 1,
                   !.tracks_to_update = Append(@, merge_result.merged),
                   !.stats.tracks_updated = @ + 1,
                   !.fields_updated = CountAll(@, merge_result.fields_updated)]
  ELSE [acc EXCEPT !.stats.tracks_matched = @ + 1, !.stats.tracks_skipped = @ + 1]

\* a matched track: db.get_cue_points_for_track(..)?
read_cues(acc, read_ok) ==
  [acc EXCEPT !.calls = Append(@, Call("get_cue_points_for_track", read_ok)),
              !.ok = read_ok]

\* count_cues that counts the removed cue points with the added ones
count_cues_with_removed(acc, cue_merge_result) ==
  IF acc.ok /\ cue_merge_result.has_changes
  THEN [acc EXCEPT !.cues_to_save = @ \o cue_merge_result.merged,
                   !.stats.cue_points_synced =
                     @ + cue_merge_result.added + cue_merge_result.removed]
  ELSE acc

\* a matched track: the outcome of merge_cue_points is queued and counted
count_cues(acc, cue_merge_result) ==
  IF acc.ok /\ cue_merge_result.has_changes
  THEN [acc EXCEPT !.cues_to_save = @ \o cue_merge_result.merged,
                   !.stats.cue_points_synced = @ + cue_merge_result.added]
  ELSE acc

merge_matched(acc, existing_track, traktor_track, read_ok) ==
  count_cues(
    read_cues(count_merge(acc, merge_track(existing_track, traktor_track,
                                           args.merge_strategy)),
              read_ok),
    merge_cue_points(get_cue_points_for_track(db.cue, existing_track.id),
                     cues_by_path(traktor_track.path), existing_track.id,
                     args.cue_merge_strategy))

\* an unmatched track is queued for import, its cues for saving
merge_unmatched(acc, traktor_track, traktor_cues) ==
  [acc EXCEPT !.tracks_to_import = Append(@, traktor_track),
              !.cues_to_save = @ \o traktor_cues,
              !.stats.cue_points_synced = @ + Len(traktor_cues)]

\* one turn of the loop of phase 4; read_ok tells whether the read of the
\* cue points, if the turn makes it, succeeds
merge_turn(acc, traktor_track, read_ok) ==
  IF RowsWith(local.existing_tracks, "path", traktor_track.path) # {}
  THEN merge_matched([acc EXCEPT !.stats.tracks_processed = @ + 1],
                     CHOOSE t \in local.existing_tracks : t.path = traktor_track.path,
                     traktor_track, read_ok)
  ELSE merge_unmatched([acc EXCEPT !.stats.tracks_processed = @ + 1],
                       traktor_track, cues_by_path(traktor_track.path))

\* the emit_progress at the end of a loop turn, reached when no call failed
emit_if(acc, due, phase, progress) ==
  IF acc.ok /\ due THEN [acc EXCEPT !.events = emit_progress(@, phase, progress)] ELSE acc

RECURSIVE merge_loop(_, _, _)
merge_loop(acc, idx, fail_at) ==
  IF idx >= Len(local.traktor_tracks) \/ ~acc.ok THEN acc
  ELSE merge_loop(emit_if(merge_turn(acc, local.traktor_tracks[idx + 1], idx + 1 # fail_at),
                          idx % 50 = 0, "Merging Metadata",
                          progress_at(25, idx, Len(local.traktor_tracks), 30)),
                  idx + 1, fail_at)

MergeDone(acc) ==
  /\ local' = [local EXCEPT
                 !.tracks_to_import = acc.tracks_to_import,
                 !.tracks_to_update = acc.tracks_to_update,
                 !.cues_to_save = acc.cues_to_save,
                 !.stats = [acc.stats EXCEPT !.fields_updated = acc.fields_updated]]
  /\ calls' = acc.calls
  /\ events' = acc.events
  /\ Proceed(acc.ok, "merge", "Database")

\* phase 4: matched tracks are merged, unmatched ones queued for import;
\* fail_at is the turn whose read of the cue points fails, 0 for none
MergeMetadata ==
  /\ pc = "merge"
  /\ \E fail_at \in 0..Len(local.traktor_tracks) :
       MergeDone(merge_loop([tracks_to_import |-> <<>>, tracks_to_update |-> <<>>,
                             cues_to_save |-> <<>>, fields_updated |-> EmptyMap,
                             stats |-> NewStats, calls |-> calls,
                             events |-> emit_progress(events, "Merging Metadata", 25),
                             ok |-> TRUE],
                            0, fail_at))
  /\ UNCHANGED <<db, nml_file, args, run, db_start, prev_result, mergeVars, cueVars, mapVars>>

\* phase 5, first half: the new tracks are inserted in one call
InsertTracks ==
  /\ pc = "insert"
  /\ events' = emit_progress(events, "Saving Tracks", 55)
  /\ IF local.tracks_to_import # <<>>
     THEN \E fail_at \in 0..Len(local.tracks_to_import) :
            LET r == insert_tracks(db.track, local.tracks_to_import, fail_at)
            IN /\ db' = [db EXCEPT !.track = r.rows]
               /\ calls' = Append(calls, Call("insert_tracks", r.ok))
               /\ local' = IF r.ok
                           THEN [local EXCEPT !.stats.tracks_imported =
                                   Len(local.tracks_to_import)]
                           ELSE local
               /\ Proceed(r.ok, "insert", "Database")
     ELSE /\ UNCHANGED <<db, calls, local>>
          /\ Proceed(TRUE, "insert", "Database")
  /\ UNCHANGED <<nml_file, args, run, db_start, prev_result, mergeVars, cueVars, mapVars>>

RECURSIVE update_loop(_, _, _)
update_loop(acc, idx, fail_at) ==
  IF idx >= Len(local.tracks_to_update) \/ ~acc.ok THEN acc
  ELSE LET r == update_track(acc.rows, local.tracks_to_update[idx + 1], idx + 1 = fail_at)
       IN update_loop(
            [rows |-> r.rows, ok |-> r.ok,
             calls |-> Append(acc.calls, Call("update_track", r.ok)),
             events |-> IF r.ok /\ idx % 50 = 0
                        THEN emit_progress(acc.events, "Saving Tracks",
                               progress_at(55, idx, Len(local.tracks_to_update), 10))
                        ELSE acc.events],
            idx + 1, fail_at)

\* phase 5, second half: the changed tracks are written one call each
UpdateTracks ==
  /\ pc = "update"
  /\ \E fail_at \in 0..Len(local.tracks_to_update) :
       LET acc == update_loop([rows |-> db.track, ok |-> TRUE, calls |-> calls,
                               events |-> events], 0, fail_at)
       IN /\ db' = [db EXCEPT !.track = acc.rows]
          /\ calls' = acc.calls
          /\ events' = acc.events
          /\ Proceed(acc.ok, "update", "Database")
  /\ UNCHANGED <<nml_file, args, run, local, db_start, prev_result, mergeVars, cueVars, mapVars>>

\* phase 6: the cue points are upserted in one call
SaveCuePoints ==
  /\ pc = "cues"
  /\ events' = emit_progress(events, "Syncing Cue Points", 65)
  /\ IF local.cues_to_save # <<>>
     THEN \E fail_at \in 0..Len(local.cues_to_save) :
            LET r == save_cue_points(db.cue, local.cues_to_save, fail_at)
            IN /\ db' = [db EXCEPT !.cue = r.rows]
               /\ calls' = Append(calls, Call("save_cue_points", r.ok))
               /\ Proceed(r.ok, "cues", "Database")
     ELSE /\ UNCHANGED <<db, calls>>
          /\ Proceed(TRUE, "cues", "Database")
  /\ UNCHANGED <<nml_file, args, run, local, db_start, prev_result, mergeVars, cueVars, mapVars>>

\* track_ids_of over the tracks the store held when the run began
track_ids_of_run_start(track_paths, all_tracks) ==
  LET found == SelectSeq(track_paths, LAMBDA path : RowsWith(db_start.track, "path", path) # {})
  IN [i \in 1..Len(found) |-> (CHOOSE t \in db_start.track : t.path = found[i]).id]

\* filter_map over track_paths: the ids of the paths the store knows
track_ids_of(track_paths, all_tracks) ==
  LET found == SelectSeq(track_paths, LAMBDA path : RowsWith(all_tracks, "path", path) # {})
  IN [i \in 1..Len(found) |-> (CHOOSE t \in all_tracks : t.path = found[i]).id]

\* db.get_playlist_by_id(&playlist.id)?
playlist_get(acc, fails) ==
  [acc EXCEPT !.n = @ + 1, !.ok = ~fails,
              !.calls = Append(@, Call("get_playlist_by_id", ~fails))]

\* record_write that counts an updated playlist as imported too
record_write_counts_updates(acc, is_some, written) ==
  [acc EXCEPT !.n = @ + 1, !.ok = written.ok, !.playlist = written.rows,
              !.calls = Append(@, Call(IF is_some THEN "update_playlist"
                                       ELSE "create_playlist", written.ok)),
              !.stats.playlists_imported = IF written.ok THEN @ + 1 ELSE @]

record_write(acc, is_some, written) ==
  [acc EXCEPT !.n = @ + 1, !.ok = written.ok, !.playlist = written.rows,
              !.calls = Append(@, Call(IF is_some THEN "update_playlist"
                                       ELSE "create_playlist", written.ok)),
              !.stats.playlists_imported = IF ~is_some /\ written.ok THEN @ + 1 ELSE @]

\* update_playlist(&playlist)? or create_playlist(&playlist)?
playlist_write(acc, playlist, fail_call) ==
  IF ~acc.ok THEN acc
  ELSE IF get_playlist_by_id(acc.playlist, playlist.id) # None
  THEN record_write(acc, TRUE,
                    update_playlist(acc.playlist, db.folder, playlist, acc.n + 1 = fail_call))
  ELSE record_write(acc, FALSE,
                    create_playlist(acc.playlist, db.folder, playlist, acc.n + 1 = fail_call))

record_link(acc, linked, count) ==
  [acc EXCEPT !.n = @ + 1, !.ok = linked.ok, !.playlistTrack = linked.rows,
              !.calls = Append(@, Call("set_playlist_tracks", linked.ok)),
              !.stats.playlist_tracks_linked = IF linked.ok THEN @ + count ELSE @]

\* set_playlist_tracks(&playlist.id, &track_ids)?, when there is a track id
playlist_link(acc, playlist_id, track_ids, fail_call, fail_stmt) ==
  IF ~acc.ok \/ track_ids = <<>> THEN acc
  ELSE record_link(acc,
                   set_playlist_tracks(acc.playlistTrack, acc.playlist, db.track,
                                       playlist_id, track_ids,
                                       IF acc.n + 1 = fail_call THEN fail_stmt ELSE 0),
                   Len(track_ids))

\* one turn of the loop of phase 7; acc.n counts the store calls of the phase
\* so far, fail_call is the one that fails (0 for none), at statement fail_stmt
playlist_turn(acc, imported, all_tracks, fail_call, fail_stmt) ==
  playlist_link(
    playlist_write(playlist_get(acc, acc.n + 1 = fail_call),
                   convert_to_harmony_playlist(imported), fail_call),
    convert_to_harmony_playlist(imported).id,
    track_ids_of(imported.track_paths, all_tracks), fail_call, fail_stmt)

RECURSIVE playlist_loop(_, _, _, _, _, _)
playlist_loop(acc, idx, imported_playlists, all_tracks, fail_call, fail_stmt) ==
  IF idx >= Len(imported_playlists) \/ ~acc.ok THEN acc
  ELSE playlist_loop(
         emit_if(playlist_turn(acc, imported_playlists[idx + 1], all_tracks,
                               fail_call, fail_stmt),
                 idx % 10 = 0, "Syncing Playlists",
                 progress_at(75, idx, Len(imported_playlists), 20)),
         idx + 1, imported_playlists, all_tracks, fail_call, fail_stmt)

PlaylistsDone(acc) ==
  /\ db' = [db EXCEPT !.playlist = acc.playlist, !.playlistTrack = acc.playlistTrack]
  /\ local' = [local EXCEPT !.stats = acc.stats]
  /\ calls' = acc.calls
  /\ events' = acc.events
  /\ Proceed(acc.ok, "playlists", "Database")

\* the playlists of the file and the store calls phase 7 makes with them
playlists_from(imported_playlists, fail_call, fail_stmt) ==
  PlaylistsDone(playlist_loop(
    [playlist |-> db.playlist, playlistTrack |-> db.playlistTrack,
     stats |-> local.stats, n |-> 1, ok |-> fail_call # 1,
     calls |-> Append(calls, Call("get_all_tracks", fail_call # 1)),
     events |-> emit_progress(events, "Syncing Playlists", 75)],
    0, imported_playlists, db.track, fail_call, fail_stmt))

\* the store calls of phase 7: get_all_tracks, then up to three per playlist
MaxPlaylistCalls ==
  IF local.nml = None \/ Unwrap(local.nml).playlists = None THEN 0
  ELSE 1 + 3 * Len(extract_playlists_from_traktor(Unwrap(Unwrap(local.nml).playlists).node))

\* phase 7: the playlists of the file are created or updated and linked
SyncPlaylists ==
  /\ pc = "playlists"
  /\ IF args.should_sync_playlists /\ local.nml # None /\ Unwrap(local.nml).playlists # None
     THEN \E fail_call \in 0..MaxPlaylistCalls, fail_stmt \in 1..2 :
            playlists_from(
              extract_playlists_from_traktor(Unwrap(Unwrap(local.nml).playlists).node),
              fail_call, fail_stmt)
     ELSE /\ UNCHANGED <<db, local, calls, events>>
          /\ Proceed(TRUE, "playlists", "Database")
  /\ UNCHANGED <<nml_file, args, run, db_start, prev_result, mergeVars, cueVars, mapVars>>

\* phase 8: the statistics are returned
Complete ==
  /\ pc = "complete"
  /\ events' = emit_progress(events, "Complete", 100)
  /\ result' = Ok(local.stats)
  /\ pc' = PhaseAfter("complete")
  /\ UNCHANGED <<db, nml_file, args, run, local, calls, db_start, prev_result, mergeVars, cueVars, mapVars>>

\* ------------------------------------------------------------------------
\* SpecMerge: merge_track applied to drawn pairs of tracks
\* ------------------------------------------------------------------------
IdentityFields == {"id", "path", "duration", "waveform_peaks", "url", "added_at"}
AllFields == IdentityFields \cup {MergeFields[i] : i \in 1..Len(MergeFields)}

\* values a drawn track may hold in the field named f
FieldValues(f) ==
  CASE f = "title" -> {<<>>, <<" ">>, <<"a">>, <<"b">>}
    [] f \in OptStringFields ->
         {None, Some(<<>>), Some(<<" ", "\t">>), Some(<<"a">>), Some(<<"b">>)}
    [] f \in OptIntFields -> {None, Some(0), Some(1), Some(2)}
    [] f = "rating" ->
         {None, Some([source |-> Some(<<"t">>), rating |-> 3]),
          Some([source |-> None, rating |-> 3]), Some([source |-> None, rating |-> 0])}
    [] f \in {"id", "path"} -> {<<"x">>, <<"y">>}
    [] f = "duration" -> {0, 1000}
    [] f = "waveform_peaks" -> {None, Some(<<1, 0>>)}
    [] f = "url" -> {None, Some(<<"u">>)}
    [] f = "added_at" -> {None, Some(5)}

HarmonyBlank ==
  [id |-> <<"h">>, path |-> <<"/", "h">>, title |-> <<>>, artist |-> None,
   album |-> None, genre |-> None, year |-> None, duration |-> 100,
   bitrate |-> None, comment |-> None, bpm |-> None, initial_key |-> None,
   rating |-> None, label |-> None, waveform_peaks |-> Some(<<1>>),
   added_at |-> Some(7), url |-> Some(<<"h">>)]

HarmonyFull ==
  [id |-> <<"h">>, path |-> <<"/", "h">>, title |-> <<"H", "1">>,
   artist |-> Some(<<"H", "2">>), album |-> Some(<<"H", "3">>),
   genre |-> Some(<<"H", "4">>), year |-> Some(1999), duration |-> 100,
   bitrate |-> Some(192), comment |-> Some(<<"H", "5">>), bpm |-> Some(120),
   initial_key |-> Some(<<"H", "6">>),
   rating |-> Some([source |-> None, rating |-> 4]), label |-> Some(<<"H", "7">>),
   waveform_peaks |-> Some(<<1>>), added_at |-> Some(7), url |-> Some(<<"h">>)]

TraktorBlank ==
  [id |-> <<"t">>, path |-> <<"/", "t">>, title |-> <<" ">>, artist |-> None,
   album |-> None, genre |-> None, year |-> None, duration |-> 200,
   bitrate |-> None, comment |-> None, bpm |-> None, initial_key |-> None,
   rating |-> None, label |-> None, waveform_peaks |-> None,
   added_at |-> Some(9), url |-> None]

TraktorFull ==
  [id |-> <<"t">>, path |-> <<"/", "t">>, title |-> <<"T", "1">>,
   artist |-> Some(<<"T", "2">>), album |-> Some(<<"T", "3">>),
   genre |-> Some(<<"T", "4">>), year |-> Some(2001), duration |-> 200,
   bitrate |-> Some(320), comment |-> Some(<<"T", "5">>), bpm |-> Some(128),
   initial_key |-> Some(<<"T", "6">>),
   rating |-> Some([source |-> Some(<<"t">>), rating |-> 5]),
   label |-> Some(<<"T", "7">>), waveform_peaks |-> None, added_at |-> Some(9),
   url |-> None]

\* the merge matrix of the resolver's unit tests
MatrixHarmony == [HarmonyBlank EXCEPT !.title = <<"S">>, !.genre = Some(<<"H", "o">>)]
MatrixTraktor ==
  [TraktorBlank EXCEPT !.title = <<"S">>, !.artist = Some(<<"D", "J">>),
                       !.bpm = Some(128), !.genre = Some(<<"T", "e">>)]

TrackPairs0 ==
  {[h |-> h, t |-> t] : h \in {HarmonyBlank, HarmonyFull}, t \in {TraktorBlank, TraktorFull}}
    \cup {[h |-> MatrixHarmony, t |-> MatrixTraktor]}

\* the pairs that depart from a template pair in at most n fields
RECURSIVE TrackPairs(_)
TrackPairs(n) ==
  IF n = 0 THEN TrackPairs0
  ELSE LET prev == TrackPairs(n - 1)
       IN prev \cup UNION { UNION { {[h |-> [p.h EXCEPT ![f] = v], t |-> [p.t EXCEPT ![f] = w]] :
                                        v \in FieldValues(f), w \in FieldValues(f)} :
                                    f \in AllFields } : p \in prev }

EmptyStore == [track |-> {}, cue |-> {}, playlist |-> {}, playlistTrack |-> {}, folder |-> {}]

SyncIdle ==
  /\ db = EmptyStore
  /\ nml_file = [entry |-> <<>>, playlists |-> None]
  /\ args = [merge_strategy |-> SmartMerge, cue_merge_strategy |-> SmartMerge,
             should_sync_playlists |-> TRUE]
  /\ pc = "off" /\ run = 0 /\ local = NewLocal
  /\ events = <<>> /\ calls = <<>> /\ result = None
  /\ db_start = EmptyStore /\ prev_result = None

MergeIdle ==
  /\ m_harmony = None /\ m_traktor = None /\ m_strategy = None
  /\ m_result = None /\ m_again = None /\ m_pc = "off"

CueIdle ==
  /\ c_harmony = <<>> /\ c_traktor = <<>> /\ c_track_id = None
  /\ c_strategy = None /\ c_result = None /\ c_pc = "off"

MapIdle == f_in = None /\ f_out = None /\ f_back = None /\ f_pc = "off"

InitMerge ==
  /\ \E p \in TrackPairs(MaxVaried) : m_harmony = p.h /\ m_traktor = p.t
  /\ m_strategy \in MergeStrategy
  /\ m_result = None
  /\ m_again = None
  /\ m_pc = "ready"
  /\ CueIdle
  /\ SyncIdle
  /\ MapIdle

MergeTrack ==
  /\ m_pc = "ready"
  /\ m_result' = merge_track(m_harmony, m_traktor, m_strategy)
  /\ m_pc' = "merged"
  /\ UNCHANGED <<m_harmony, m_traktor, m_strategy, m_again, cueVars, syncVars, mapVars>>

\* the same Traktor track merged into the track the first merge returned
MergeAgain ==
  /\ m_pc = "merged"
  /\ m_again' = merge_track(m_result.merged, m_traktor, m_strategy)
  /\ m_pc' = "remerged"
  /\ UNCHANGED <<m_harmony, m_traktor, m_strategy, m_result, cueVars, syncVars, mapVars>>

NextMerge == MergeTrack \/ MergeAgain

vars == <<mergeVars, cueVars, mapVars, syncVars>>

SpecMerge == InitMerge /\ [][NextMerge]_vars

\* ------------------------------------------------------------------------
\* SpecCue: merge_cue_points applied to drawn cue lists
\* ------------------------------------------------------------------------
SeqsUpTo(S, n) == UNION {[1..k -> S] : k \in 0..n}

CueSamples ==
  {[id |-> <<"c", "1">>, track_id |-> <<"t">>, cue_type |-> "hot_cue",
    position_ms |-> 1000, length_ms |-> None, hotcue_slot |-> Some(0),
    name |-> Some(<<"I", "n">>), color |-> None, order |-> Some(1)],
   [id |-> <<"c", "2">>, track_id |-> <<"t">>, cue_type |-> "loop",
    position_ms |-> 2000, length_ms |-> Some(500), hotcue_slot |-> None,
    name |-> None, color |-> Some(<<"r">>), order |-> None],
   [id |-> <<"c", "3">>, track_id |-> <<"h">>, cue_type |-> "grid",
    position_ms |-> 0, length_ms |-> None, hotcue_slot |-> None,
    name |-> Some(<<"G">>), color |-> None, order |-> Some(2)]}

InitCue ==
  /\ c_harmony \in SeqsUpTo(CueSamples, MaxCues)
  /\ c_traktor \in SeqsUpTo(CueSamples, MaxCues)
  /\ c_track_id \in {<<"h">>, <<"k">>}
  /\ c_strategy \in CueMergeStrategy
  /\ c_result = None
  /\ c_pc = "ready"
  /\ MergeIdle
  /\ SyncIdle
  /\ MapIdle

MergeCuePoints ==
  /\ c_pc = "ready"
  /\ c_result' = merge_cue_points(c_harmony, c_traktor, c_track_id, c_strategy)
  /\ c_pc' = "merged"
  /\ UNCHANGED <<c_harmony, c_traktor, c_track_id, c_strategy, mergeVars, syncVars, mapVars>>

NextCue == MergeCuePoints

SpecCue == InitCue /\ [][NextCue]_vars

\* ------------------------------------------------------------------------
\* Spec: runs of sync_traktor_nml on a drawn file against a drawn store
\* ------------------------------------------------------------------------
SampleCue ==
  [cue_type |-> <<"0">>, start |-> <<"1", "0", "0", "0">>, len |-> Some(<<"0">>),
   hotcue |-> Some(<<"1">>), name |-> Some(<<"n", ".", "n", ".">>),
   displ_order |-> None, grid |-> None, repeats |-> None]

\* an ENTRY of the collection on volume C:, directory /:m/:, either tagged
\* (artist, tempo, one cue) or bare
SampleEntry(file, tagged) ==
  [title |-> IF tagged THEN Some(<<"T">>) ELSE None,
   artist |-> IF tagged THEN Some(<<"X">>) ELSE None,
   location |-> [dir |-> <<"/", ":", "m", "/", ":">>, file |-> file,
                 volume |-> Some(<<"C", ":">>)],
   album |-> None,
   info |-> None,
   tempo |-> IF tagged THEN Some([bpm |-> <<"1", "2", "8">>]) ELSE None,
   cue_v2 |-> IF tagged THEN <<SampleCue>> ELSE <<>>]

EntrySet ==
  {SampleEntry(<<"A">>, TRUE), SampleEntry(<<"A">>, FALSE), SampleEntry(<<"a">>, TRUE),
   SampleEntry(<<"b">>, TRUE)}

PlaylistKey(file) == [primarykey |-> [key |-> Some(<<"C", ":", "/", ":", "m", "/", ":">> \o file)]]

\* $ROOT holding one playlist of two tracks
SampleRoot ==
  [node_type |-> "FOLDER", name |-> <<"$", "R">>, playlist |-> None,
   subnodes |-> Some([nodes |->
     <<[node_type |-> "PLAYLIST", name |-> <<"P">>, subnodes |-> None,
        playlist |-> Some([uuid |-> <<"u", "1">>,
                           entry |-> <<PlaylistKey(<<"A">>), PlaylistKey(<<"b">>)>>])]>>])]

\* a track as the library scan stores it: the id is generate_id of the path
StoredTrack(file, title, artist) ==
  LET path == <<"C", ":", "/", "m", "/">> \o file
  IN [id |-> generate_id(path), path |-> path, title |-> title, artist |-> artist,
      album |-> None, genre |-> None, year |-> None, duration |-> 0, bitrate |-> None,
      comment |-> None, bpm |-> None, initial_key |-> None, rating |-> None,
      label |-> None, waveform_peaks |-> None, added_at |-> None, url |-> None]

\* a cue point set by the user in the application
StoredCue(track) ==
  [id |-> <<"uuid-1">>, track_id |-> track.id, cue_type |-> "hot_cue",
   position_ms |-> 500 * Thousand, length_ms |-> None, hotcue_slot |-> Some(0),
   name |-> Some(<<"U">>), color |-> None, order |-> None]

StoredSets ==
  LET bare == StoredTrack(<<"A">>, <<"A">>, None)
      held == StoredTrack(<<"A">>, <<"M">>, Some(<<"U">>))
  IN {[track |-> {}, cue |-> {}],
      [track |-> {bare}, cue |-> {}],
      [track |-> {held}, cue |-> {StoredCue(held)}]}

RootFolder == [id |-> <<"/", "$", "R">>, name |-> <<"$", "R">>, parent_id |-> None, path |-> None]

\* $ROOT after the first track was taken out of the playlist in Traktor
ShrunkRoot ==
  [SampleRoot EXCEPT !.subnodes[1].nodes[1].playlist[1].entry = <<PlaylistKey(<<"b">>)>>]

\* the playlist row an earlier sync wrote, before the playlist was renamed
StoredPlaylist ==
  [id |-> <<"u", "1">>, name |-> <<"Q">>, folder_id |-> Some(RootFolder.id)]

\* folder table, PLAYLISTS element of the file, sync_playlists argument, and
\* whether the store holds the playlist of an earlier sync with the stored
\* tracks as its members
PlaylistSetups ==
  {[folder |-> {}, playlists |-> None, sync |-> TRUE, linked |-> FALSE],
   [folder |-> {}, playlists |-> Some([node |-> SampleRoot]), sync |-> TRUE, linked |-> FALSE],
   [folder |-> {RootFolder}, playlists |-> Some([node |-> SampleRoot]), sync |-> TRUE,
    linked |-> FALSE],
   [folder |-> {RootFolder}, playlists |-> Some([node |-> SampleRoot]), sync |-> FALSE,
    linked |-> FALSE],
   [folder |-> {RootFolder}, playlists |-> Some([node |-> ShrunkRoot]), sync |-> TRUE,
    linked |-> TRUE]}

Init ==
  /\ \E stored \in StoredSets, setup \in PlaylistSetups,
        entry \in SeqsUpTo(EntrySet, MaxEntries) :
       /\ db = [track |-> stored.track, cue |-> stored.cue,
                playlist |-> IF setup.linked THEN {StoredPlaylist} ELSE {},
                playlistTrack |->
                  IF setup.linked
                  THEN {[playlist_id |-> StoredPlaylist.id, track_id |-> t.id, order |-> 0] :
                          t \in stored.track}
                  ELSE {},
                folder |-> setup.folder]
       /\ nml_file = [entry |-> entry, playlists |-> setup.playlists]
       /\ \E strategy \in MergeStrategy, cue_strategy \in CueMergeStrategy :
            args = [merge_strategy |-> strategy, cue_merge_strategy |-> cue_strategy,
                    should_sync_playlists |-> setup.sync]
  /\ pc = "idle" /\ run = 0 /\ local = NewLocal
  /\ events = <<>> /\ calls = <<>> /\ result = None
  /\ db_start = db /\ prev_result = None
  /\ MergeIdle /\ CueIdle /\ MapIdle

Next ==
  \/ StartSync
  \/ ParseNml
  \/ ConvertEntries
  \/ MatchTracks
  \/ MergeMetadata
  \/ InsertTracks
  \/ UpdateTracks
  \/ SaveCuePoints
  \/ SyncPlaylists
  \/ Complete

Spec == Init /\ [][Next]_vars

\* ------------------------------------------------------------------------
\* Claims on merge_track (SpecMerge)
\* ------------------------------------------------------------------------
MergeFieldSet == {MergeFields[i] : i \in 1..Len(MergeFields)}

WhitespaceOnly(s) == \A i \in 1..Len(s) : s[i] \in WhiteSpace

\* emptiness as the specification words it: a string is empty when absent or
\* whitespace-only, an integer when absent or exactly 0, a rating when absent
StatedEmpty(f, v) ==
  CASE f = "title" -> WhitespaceOnly(v)
    [] f \in OptStringFields -> v = None \/ WhitespaceOnly(v[1])
    [] f \in OptIntFields -> v = None \/ v = <<0>>
    [] f = "rating" -> v = None

Merged == m_pc \in {"merged", "remerged"}

\* C6: under SmartMerge every mergeable field of the result holds Traktor's
\* value when canonical's is empty and Traktor's is not, and canonical's value
\* otherwise; the merge matrix {artist=None, bpm=None, genre=House} with
\* {artist=DJ X, bpm=128, genre=Techno} gives artist=DJ X, bpm=128, genre=House.
C6_SmartMergeFillsEmpty ==
  (Merged /\ m_strategy = SmartMerge) =>
    /\ \A f \in MergeFieldSet :
         m_result.merged[f] =
           IF StatedEmpty(f, m_harmony[f]) /\ ~StatedEmpty(f, m_traktor[f])
           THEN m_traktor[f] ELSE m_harmony[f]
    /\ (m_harmony = MatrixHarmony /\ m_traktor = MatrixTraktor) =>
         /\ m_result.merged.artist = Some(<<"D", "J">>)
         /\ m_result.merged.bpm = Some(128)
         /\ m_result.merged.genre = Some(<<"H", "o">>)

C6_Witness ==
  /\ Merged /\ m_strategy = SmartMerge
  /\ m_harmony.bpm = Some(0) /\ m_traktor.bpm = Some(2)
  /\ m_result.merged.bpm = Some(2)

\* C7: under TraktorWins every mergeable field of the result holds Traktor's
\* value when that value is non-empty and differs from canonical's, and
\* canonical's value otherwise; an empty Traktor value replaces nothing.
C7_TraktorWinsOverwrites ==
  (Merged /\ m_strategy = TraktorWins) =>
    \A f \in MergeFieldSet :
      /\ m_result.merged[f] =
           IF ~StatedEmpty(f, m_traktor[f]) /\ m_traktor[f] # m_harmony[f]
           THEN m_traktor[f] ELSE m_harmony[f]
      /\ StatedEmpty(f, m_traktor[f]) => m_result.merged[f] = m_harmony[f]

C7_Witness ==
  /\ Merged /\ m_strategy = TraktorWins
  /\ m_harmony = MatrixHarmony /\ m_traktor = MatrixTraktor
  /\ m_result.merged.genre = Some(<<"T", "e">>)
  /\ m_result.merged.album = None

\* C8: under HarmonyWins the result is the canonical track with every field
\* unchanged, has_changes is false and fields_updated is empty.
C8_HarmonyWinsUnchanged ==
  (Merged /\ m_strategy = HarmonyWins) =>
    /\ m_result.merged = m_harmony
    /\ m_result.has_changes = FALSE
    /\ m_result.fields_updated = <<>>

C8_Witness ==
  /\ Merged /\ m_strategy = HarmonyWins
  /\ m_harmony = HarmonyBlank /\ m_traktor = TraktorFull
  /\ m_result.merged.artist = None

\* C9: under every strategy the result's id, path, duration, waveform_peaks,
\* url and added_at are the canonical track's.
C9_IdentityFieldsKept ==
  Merged => \A f \in IdentityFields : m_result.merged[f] = m_harmony[f]

C9_Witness ==
  /\ Merged /\ m_strategy = TraktorWins
  /\ m_result.has_changes
  /\ \A f \in IdentityFields : m_traktor[f] # m_harmony[f]

\* the mergeable fields, in the order of MergeFields, that satisfy Differs
RECURSIVE FieldsWhere(_, _)
FieldsWhere(Differs(_), i) ==
  IF i > Len(MergeFields) THEN <<>>
  ELSE IF Differs(MergeFields[i])
       THEN <<MergeFields[i]>> \o FieldsWhere(Differs, i + 1)
       ELSE FieldsWhere(Differs, i + 1)

\* C21: for every strategy and pair of tracks, has_changes is true exactly when
\* fields_updated is non-empty, and fields_updated lists, without repetition and
\* in the order title, artist, album, genre, year, bpm, initial_key, rating,
\* comment, bitrate, label, exactly the mergeable fields whose merged value
\* differs from the canonical track's.
C21_FieldsUpdatedExact ==
  Merged =>
    LET Differs(f) == m_result.merged[f] # m_harmony[f]
    IN /\ m_result.has_changes <=> (m_result.fields_updated # <<>>)
       /\ m_result.fields_updated = FieldsWhere(Differs, 1)
       /\ \A i, j \in 1..Len(m_result.fields_updated) :
            i # j => m_result.fields_updated[i] # m_result.fields_updated[j]

C21_Witness ==
  /\ Merged /\ m_strategy = TraktorWins
  /\ m_harmony = MatrixHarmony /\ m_traktor = MatrixTraktor
  /\ m_result.has_changes
  /\ m_result.fields_updated = <<"artist", "genre", "bpm">>

\* C30: merging the same Traktor track with the same strategy into the result
\* of merge_track reports has_changes = false and returns that result unchanged.
C30_MergeIdempotent ==
  m_pc = "remerged" =>
    /\ m_again.has_changes = FALSE
    /\ m_again.fields_updated = <<>>
    /\ m_again.merged = m_result.merged

C30_Witness ==
  /\ m_pc = "remerged"
  /\ m_strategy = SmartMerge
  /\ m_result.has_changes
  /\ m_result.merged # m_harmony
  /\ m_again.merged = m_result.merged

\* ------------------------------------------------------------------------
\* Claims on merge_cue_points (SpecCue)
\* ------------------------------------------------------------------------
CuesMerged == c_pc = "merged"

\* C10: merge_cue_points under SmartMerge returns the canonical list unchanged
\* (has_changes false, added = removed = 0) when canonical holds a cue; when it
\* holds none it returns Traktor's list in order with track_id set to the given
\* id, added = number of Traktor cues, removed = 0, and has_changes true exactly
\* when Traktor supplied a cue.
C10_CueSmartMerge ==
  (CuesMerged /\ c_strategy = SmartMerge) =>
    IF Len(c_harmony) >= 1
    THEN /\ c_result.merged = c_harmony
         /\ c_result.has_changes = FALSE
         /\ c_result.added = 0 /\ c_result.removed = 0
    ELSE /\ Len(c_result.merged) = Len(c_traktor)
         /\ \A i \in 1..Len(c_traktor) :
              c_result.merged[i] = [c_traktor[i] EXCEPT !.track_id = c_track_id]
         /\ c_result.added = Len(c_traktor)
         /\ c_result.removed = 0
         /\ c_result.has_changes <=> (Len(c_traktor) >= 1)

C10_Witness ==
  /\ CuesMerged /\ c_strategy = SmartMerge
  /\ Len(c_harmony) = 2 /\ Len(c_traktor) = 1
  /\ c_harmony[1] # c_traktor[1]
  /\ Len(c_result.merged) = 2

\* C11: merge_cue_points under Replace returns exactly Traktor's cues, in
\* order, each with track_id rewritten to the given id and every other field
\* kept, with added = number of Traktor cues and removed = number of canonical
\* cues; under every strategy removed is nonzero only under Replace.
C11_CueReplace ==
  CuesMerged =>
    /\ (c_strategy = Replace) =>
         /\ Len(c_result.merged) = Len(c_traktor)
         /\ \A i \in 1..Len(c_traktor) :
              c_result.merged[i] = [c_traktor[i] EXCEPT !.track_id = c_track_id]
         /\ c_result.added = Len(c_traktor)
         /\ c_result.removed = Len(c_harmony)
    /\ (c_result.removed # 0) => (c_strategy = Replace)

C11_Witness ==
  /\ CuesMerged /\ c_strategy = Replace
  /\ Len(c_harmony) = 1 /\ Len(c_traktor) = 2
  /\ c_traktor[1].track_id # c_track_id
  /\ c_traktor[1] # c_traktor[2]
  /\ c_result.merged[1].track_id = c_track_id
  /\ c_result.removed = 1 /\ c_result.added = 2

\* ------------------------------------------------------------------------
\* Claims on sync_traktor_nml (Spec)
\* ------------------------------------------------------------------------
Emitted(phase) == \E i \in 1..Len(events) : events[i].phase = phase

CalledOk(op) == \E i \in 1..Len(calls) : calls[i].op = op /\ calls[i].ok

Returned == Unwrap(result)

\* every Traktor track of the file that has cues is in the store, with cues
CuedTracksCarryCues(store) ==
  \A i \in 1..Len(local.traktor_tracks) :
    local.traktor_tracks[i].path \in DOMAIN local.traktor_cues_by_path
      => \E t \in store.track :
           /\ t.path = local.traktor_tracks[i].path
           /\ RowsWith(store.cue, "track_id", t.id) # {}

\* C1: after one successful run with SmartMerge/SmartMerge that left every
\* Traktor track with cues carrying cues in the store, a second run of the same
\* file with the same strategies returns tracks_updated = 0 and
\* cue_points_synced = 0.
C1_SecondRunIdempotent ==
  (/\ run >= 2 /\ pc = "done"
   /\ prev_result # None /\ Unwrap(prev_result).ok
   /\ args.merge_strategy = SmartMerge /\ args.cue_merge_strategy = SmartMerge
   /\ CuedTracksCarryCues(db_start))
  => /\ Unwrap(Returned.stats).tracks_updated = 0
     /\ Unwrap(Returned.stats).cue_points_synced = 0

\* C2: under SmartMerge and under HarmonyWins every mergeable field of a
\* track that was in the store before the sync and held a non-empty value there
\* holds the same value in the store after the sync.
C2_UserValuesPreserved ==
  (pc = "done" /\ args.merge_strategy \in {SmartMerge, HarmonyWins})
  => \A t \in db_start.track : \A f \in MergeFieldSet :
       ~field_is_empty(f, t[f])
         => \E r \in db.track : r.id = t.id /\ r[f] = t[f]

Before(first, second) ==
  \A i, j \in 1..Len(calls) : (calls[i].op \in first /\ calls[j].op \in second) => i < j

\* the successful update_track calls of the run so far
UpdatesDone == Cardinality({i \in 1..Len(calls) : calls[i].op = "update_track" /\ calls[i].ok})

\* C3: in every run the insert of the new tracks comes before every update
\* of a matched track and both come before the save of the cue points; when the
\* cue points are about to be written the inserts and updates have all been
\* made and every cue point carries the id of a track row of the store.
C3_PersistOrdering ==
  /\ Before({"insert_tracks"}, {"update_track"})
  /\ Before({"insert_tracks", "update_track"}, {"save_cue_points"})
  /\ (pc = "cues" \/ CalledOk("save_cue_points"))
       => /\ local.tracks_to_import # <<>> => CalledOk("insert_tracks")
          /\ UpdatesDone = Len(local.tracks_to_update)
          /\ \A k \in 1..Len(local.cues_to_save) :
               RowsWith(db.track, "id", local.cues_to_save[k].track_id) # {}

C3_Witness ==
  /\ pc = "cues" /\ local.cues_to_save # <<>>
  /\ CalledOk("insert_tracks") /\ CalledOk("update_track")
  /\ \E k \in 1..Len(local.cues_to_save) :
       RowsWith(db_start.track, "id", local.cues_to_save[k].track_id) = {}

\* C4: when the file cannot be read or parsed the run returns an error
\* without having made a store call: the store is as it was and no Complete
\* event has been emitted.
C4_ParseFailureAborts ==
  (Emitted("Parsing NML") /\ pc # "parse" /\ local.nml = None)
  => /\ pc = "failed"
     /\ result \in {Err("Io"), Err("Xml")}
     /\ calls = <<>>
     /\ db = db_start
     /\ ~Emitted("Complete")

C4_Witness ==
  /\ pc = "failed" /\ local.nml = None /\ Emitted("Parsing NML")
  /\ result = Err("Xml") /\ db.track # {} /\ run = 2

\* the row update_track leaves for a track
WrittenBy(track, row) == row.id = track.id /\ [row EXCEPT !.added_at = track.added_at] = track

\* C5: a failing store call is the last call of the run, the run returns
\* its error with no statistics and emits no Complete event; the writes
\* committed before it are in the store (the inserted tracks, the updated
\* tracks, the saved cue points); when the failing call is a read of phase 3 or
\* 4 the store is as it was.
C5_StoreFailureAborts ==
  \A i \in 1..Len(calls) :
    ~calls[i].ok
      => /\ i = Len(calls)
         /\ pc = "failed"
         /\ result = Err("Database")
         /\ Returned.stats = None
         /\ ~Emitted("Complete")
         /\ CalledOk("insert_tracks")
              => \A k \in 1..Len(local.tracks_to_import) :
                   RowsWith(db.track, "id", local.tracks_to_import[k].id) # {}
         /\ \A k \in 1..UpdatesDone :
              (\A later \in (k + 1)..UpdatesDone :
                 local.tracks_to_update[later].id # local.tracks_to_update[k].id)
                => \E r \in db.track : WrittenBy(local.tracks_to_update[k], r)
         /\ CalledOk("save_cue_points")
              => \A k \in 1..Len(local.cues_to_save) :
                   RowsWith(db.cue, "id", local.cues_to_save[k].id) # {}
         /\ ~Emitted("Saving Tracks") => db = db_start

C5_Witness ==
  /\ pc = "failed"
  /\ calls # <<>> /\ calls[Len(calls)] = Call("save_cue_points", FALSE)
  /\ CalledOk("insert_tracks")
  /\ db.track # db_start.track
  /\ db.cue # db_start.cue

\* the rows of the cue table that belong to the track
StoredCuesOf(store, track_id) == RowsWith(store.cue, "track_id", track_id)

\* the cue points the file supplied for the path, under the given track id
SuppliedCues(path, track_id) ==
  {retarget_cue(cues_by_path(path)[i], track_id) : i \in 1..Len(cues_by_path(path))}

\* the tracks of the store the run matched with an entry of the file
MatchedTracks ==
  {t \in local.existing_tracks :
     \E i \in 1..Len(local.traktor_tracks) : local.traktor_tracks[i].path = t.path}

\* C12: after a sync run with cue strategy Replace completes, the cue points
\* held in the store for each matched track are exactly the cue points Traktor
\* supplied for that track; the cues the track held before are gone.
C12_ReplaceDiscardsStoredCues ==
  (pc = "done" /\ args.cue_merge_strategy = Replace)
  => \A t \in MatchedTracks : StoredCuesOf(db, t.id) = SuppliedCues(t.path, t.id)

\* the run before this one completed
FirstSyncCompleted == run >= 2 /\ prev_result # None /\ Unwrap(prev_result).ok

\* C13: syncing the same file a second time, under either cue strategy, leaves
\* the set of cue-point rows of the store exactly as the first sync left it.
C13_ReimportAddsNoCue ==
  (FirstSyncCompleted /\ pc = "done") => db.cue = db_start.cue

\* the second run saved cue points that the first run had saved already
C13_Witness ==
  /\ FirstSyncCompleted /\ pc = "done"
  /\ \E i \in 1..Len(calls) : calls[i].op = "save_cue_points" /\ calls[i].ok
  /\ local.cues_to_save # <<>>
  /\ \A i \in 1..Len(local.cues_to_save) : local.cues_to_save[i] \in db_start.cue
  /\ db.cue = db_start.cue

\* the tracks the entries of the file were converted to
ConvertedTracks == {local.traktor_tracks[i] : i \in 1..Len(local.traktor_tracks)}

\* C16: the id map_traktor_entry_to_track gives is the id generate_id gives
\* for the track's path (the id of the filesystem import); two entries whose
\* paths differ only in letter case get the same id; and the store never holds
\* two track rows for one path, however its letters are cased.
C16_TrackIdFromFoldedPath ==
  /\ \A t \in ConvertedTracks : t.id = generate_id(t.path)
  /\ \A t, u \in ConvertedTracks :
       ToLowercase(t.path) = ToLowercase(u.path) => t.id = u.id
  /\ \A r, q \in db.track :
       ToLowercase(r.path) = ToLowercase(q.path) => r = q

\* a file naming one path in two casings was imported into an empty store
C16_Witness ==
  /\ pc = "done" /\ db_start.track = {}
  /\ \E t, u \in ConvertedTracks : t.path # u.path /\ t.id = u.id
  /\ Cardinality(db.track) = 1

\* the playlists phase 7 extracts from the file the run parsed
Extracted ==
  IF local.nml = None \/ Unwrap(local.nml).playlists = None THEN <<>>
  ELSE extract_playlists_from_traktor(Unwrap(Unwrap(local.nml).playlists).node)

\* the run returned success after a playlist phase that had playlists to sync
PlaylistsSynced == pc = "done" /\ args.should_sync_playlists /\ Len(Extracted) > 0

PathsOf(tracks) == {t.path : t \in tracks}

\* the ids of the tracks of the store that the paths name, in the paths' order
RECURSIVE ResolvedIds(_, _)
ResolvedIds(paths, tracks) ==
  IF paths = <<>> THEN <<>>
  ELSE IF Head(paths) \in PathsOf(tracks)
       THEN <<(CHOOSE t \in tracks : t.path = Head(paths)).id>>
              \o ResolvedIds(Tail(paths), tracks)
       ELSE ResolvedIds(Tail(paths), tracks)

\* the references of the first n extracted playlists that resolve in the store
RECURSIVE ResolvedTotal(_)
ResolvedTotal(n) ==
  IF n = 0 THEN 0
  ELSE Len(ResolvedIds(Extracted[n].track_paths, db.track)) + ResolvedTotal(n - 1)

\* C23: playlist references are resolved against the tracks of the store as
\* they are after phase 5 of the same run: a reference to the path of a track
\* this run has just imported is linked, playlist_tracks_linked is the number
\* of references that resolved, and a reference whose path is not in the store
\* is skipped: a run fails in phase 7 only on a failing store call.
C23_ReferencesResolveAfterImport ==
  /\ PlaylistsSynced =>
       /\ Returned.stats[1].playlist_tracks_linked = ResolvedTotal(Len(Extracted))
       /\ \A i \in 1..Len(Extracted) : \A t \in db.track \ db_start.track :
            (\E k \in 1..Len(Extracted[i].track_paths) : Extracted[i].track_paths[k] = t.path)
              => \E row \in db.playlistTrack :
                   row.playlist_id = Extracted[i].id /\ row.track_id = t.id
  /\ (pc = "failed" /\ Emitted("Syncing Playlists")) => ~calls[Len(calls)].ok

\* one reference names a track the run imported, the other names no track
C23_Witness ==
  /\ PlaylistsSynced
  /\ \E k \in 1..Len(Extracted[1].track_paths) :
       Extracted[1].track_paths[k] \in PathsOf(db.track \ db_start.track)
  /\ \E k \in 1..Len(Extracted[1].track_paths) :
       Extracted[1].track_paths[k] \notin PathsOf(db.track)
  /\ Returned.stats[1].playlist_tracks_linked = 1

\* the membership rows that hold the track ids in their order
MembershipRows(playlist_id, track_ids) ==
  {[playlist_id |-> playlist_id, track_id |-> track_ids[k], order |-> k - 1] :
     k \in 1..Len(track_ids)}

\* C24: after a successful sync with playlist sync requested, the stored
\* membership of every extracted playlist is exactly the ordered list of track
\* ids its references resolved to in this run, whatever membership it held
\* before, including when that list is empty.
C24_MembershipIsResolvedList ==
  PlaylistsSynced =>
    \A i \in 1..Len(Extracted) :
      RowsWith(db.playlistTrack, "playlist_id", Extracted[i].id)
        = MembershipRows(Extracted[i].id, ResolvedIds(Extracted[i].track_paths, db.track))

PlaylistIds(store) == {p.id : p \in store.playlist}

\* C25: each extracted playlist is upserted by id, so the store never holds
\* two playlists with one id and after a successful sync holds each extracted
\* playlist with the name and folder of the file; playlists_imported counts
\* the playlists created in this run, and a second successful sync of the same
\* file returns playlists_imported = 0.
C25_PlaylistUpsert ==
  /\ \A p, q \in db.playlist : p.id = q.id => p = q
  /\ PlaylistsSynced =>
       /\ \A i \in 1..Len(Extracted) :
            \E p \in db.playlist :
              /\ p.id = Extracted[i].id
              /\ \E j \in i..Len(Extracted) : p = convert_to_harmony_playlist(Extracted[j])
       /\ Returned.stats[1].playlists_imported
            = Cardinality(PlaylistIds(db) \ PlaylistIds(db_start))
  /\ (FirstSyncCompleted /\ pc = "done") => Returned.stats[1].playlists_imported = 0

\* the second sync updates the playlist the first one created
C25_Witness ==
  /\ PlaylistsSynced /\ FirstSyncCompleted
  /\ Unwrap(prev_result).stats[1].playlists_imported = 1
  /\ CalledOk("update_playlist")
  /\ Returned.stats[1].playlists_imported = 0

\* C29: every playlist row the sync writes satisfies playlist.folderId ->
\* folder(id): when phase 7 is about to write the playlists of the file, the
\* folder each of them names is a row of the folder table, also on a store
\* that holds no folder rows.
C29_PlaylistRowsKeepFolderKey ==
  (pc = "playlists" /\ args.should_sync_playlists) =>
    \A i \in 1..Len(Extracted) :
      FolderKeyHolds(db.folder, convert_to_harmony_playlist(Extracted[i]).folder_id)

\* the phase names of the progress events, in their stated order
StatedPhases ==
  <<"Parsing NML", "Processing Tracks", "Matching Tracks", "Merging Metadata",
    "Saving Tracks", "Syncing Cue Points", "Syncing Playlists", "Complete">>

PhaseRank(phase) == CHOOSE k \in 1..Len(StatedPhases) : StatedPhases[k] = phase

\* C26: in every run the progress events appear in the order Parsing NML,
\* Processing Tracks, Matching Tracks, Merging Metadata, Saving Tracks, Syncing
\* Cue Points, Syncing Playlists (only when requested and present), Complete,
\* never returning to an earlier phase; every progress value lies in 0..100 and
\* the values never decrease; Complete with value 100 is emitted exactly once,
\* as the last event, and only in runs that return success.
C26_ProgressOrdered ==
  /\ \A i \in 1..Len(events) :
       /\ \E k \in 1..Len(StatedPhases) : StatedPhases[k] = events[i].phase
       /\ events[i].progress \in 0..100
       /\ events[i].phase = "Complete" =>
            /\ i = Len(events)
            /\ events[i].progress = 100
            /\ pc = "done" /\ result # None /\ Returned.ok
       /\ events[i].phase = "Syncing Playlists" =>
            args.should_sync_playlists /\ nml_file.playlists # None
  /\ \A i, j \in 1..Len(events) :
       i < j => /\ PhaseRank(events[i].phase) <= PhaseRank(events[j].phase)
                /\ events[i].progress <= events[j].progress
  /\ pc = "done" =>
       /\ events # <<>> /\ events[Len(events)].phase = "Complete"
       /\ \A k \in 1..Len(StatedPhases) :
            StatedPhases[k] # "Syncing Playlists" => Emitted(StatedPhases[k])
       /\ (args.should_sync_playlists /\ nml_file.playlists # None)
            => Emitted("Syncing Playlists")

C26_Witness ==
  /\ pc = "done"
  /\ Emitted("Syncing Playlists")
  /\ Len(nml_file.entry) = MaxEntries
  /\ events[Len(events)] = [phase |-> "Complete", progress |-> 100]

\* C28: the statistics of a successful sync are consistent: tracks_processed is
\* the number of collection entries of the file, tracks_processed =
\* tracks_matched + tracks_imported, tracks_matched = tracks_updated +
\* tracks_skipped, every count of the fields_updated histogram is between 1 and
\* tracks_updated, and cue_points_synced is the number of cue points handed to
\* the store in phase 6.
C28_StatsConsistent ==
  pc = "done" =>
    LET stats == Returned.stats[1]
    IN /\ stats.tracks_processed = Len(nml_file.entry)
       /\ stats.tracks_processed = stats.tracks_matched + stats.tracks_imported
       /\ stats.tracks_matched = stats.tracks_updated + stats.tracks_skipped
       /\ \A f \in DOMAIN stats.fields_updated :
            stats.fields_updated[f] >= 1 /\ stats.fields_updated[f] <= stats.tracks_updated
       /\ stats.cue_points_synced = Len(local.cues_to_save)

\* one entry matched and updated, one imported, and their cue points saved
C28_Witness ==
  /\ pc = "done"
  /\ Returned.stats[1].tracks_updated = 1
  /\ Returned.stats[1].tracks_imported = 1
  /\ Returned.stats[1].fields_updated # EmptyMap
  /\ Returned.stats[1].cue_points_synced = Len(local.cues_to_save)
  /\ Returned.stats[1].cue_points_synced >= 2
  /\ CalledOk("save_cue_points")

\* ------------------------------------------------------------------------
\* SpecCueMap: the cue mapper applied to drawn CUE_V2 markers
\* ------------------------------------------------------------------------
\* CUE_V2 markers of type HotCue, Grid and Loop
Markers ==
  [cue_type : {<<"0">>, <<"4">>, <<"5">>},
   start : {<<"0">>, <<"1", "2", ".", "5">>},
   len : {None, Some(<<"5", "0", "0">>)},
   hotcue : {None} \cup {Some(I32ToString(slot)) : slot \in 0..MaxSlot},
   name : {None, Some(<<"n", ".", "n", ".">>), Some(<<"I", "n">>)},
   displ_order : {None, Some(<<"5">>)},
   grid : {None, Some([bpm |-> <<"1", "2", "8">>])},
   repeats : {Some(<<"-", "1">>)}]

InitCueMap ==
  /\ f_in \in [marker : Markers, track_id : {<<"t">>, <<"u">>}]
  /\ f_out = None /\ f_back = None /\ f_pc = "ready"
  /\ MergeIdle /\ CueIdle /\ SyncIdle

MapTraktorCue ==
  /\ f_pc = "ready"
  /\ f_out' = map_traktor_cue_to_harmony(f_in.marker, f_in.track_id)
  /\ f_pc' = "mapped"
  /\ UNCHANGED <<f_in, f_back, mergeVars, cueVars, syncVars>>

\* the canonical cue is converted back
MapHarmonyCue ==
  /\ f_pc = "mapped"
  /\ f_back' = map_harmony_cue_to_traktor(f_out)
  /\ f_pc' = "returned"
  /\ UNCHANGED <<f_in, f_out, mergeVars, cueVars, syncVars>>

\* a second marker of the same track is converted
MapOtherCue ==
  /\ f_pc = "mapped"
  /\ \E other \in Markers :
       f_back' = [marker |-> other,
                  cue |-> map_traktor_cue_to_harmony(other, f_in.track_id)]
  /\ f_pc' = "compared"
  /\ UNCHANGED <<f_in, f_out, mergeVars, cueVars, syncVars>>

NextCueMap == MapTraktorCue \/ MapHarmonyCue \/ MapOtherCue

SpecCueMap == InitCueMap /\ [][NextCueMap]_vars

\* ------------------------------------------------------------------------
\* Claims on the cue mapper (SpecCueMap)
\* ------------------------------------------------------------------------
\* two decimal strings parse to values less than 1e-3 apart
Within1e3(a, b) ==
  /\ ParseF64(a) # None /\ ParseF64(b) # None
  /\ Unwrap(ParseF64(a)) - Unwrap(ParseF64(b)) \in {0}

\* C14: converting a marker of type HotCue, Loop or Grid to a canonical cue
\* point and back reproduces the marker's type code, hotcue slot, name and
\* display order exactly, and its position and length within 1e-3.
C14_CueRoundTrip ==
  (/\ f_pc = "returned"
   /\ map_traktor_cue_type(f_in.marker.cue_type) \in {"hot_cue", "loop", "grid"})
  => /\ f_back.cue_type = f_in.marker.cue_type
     /\ f_back.hotcue = f_in.marker.hotcue
     /\ f_back.name = f_in.marker.name
     /\ f_back.displ_order = f_in.marker.displ_order
     /\ Within1e3(f_back.start, f_in.marker.start)
     /\ IF f_in.marker.len = None THEN f_back.len = None
        ELSE /\ f_back.len # None
             /\ Within1e3(Unwrap(f_back.len), Unwrap(f_in.marker.len))

\* two cue points agree on the three components of the id besides the slot
SameTrackPositionType(a, b) ==
  a.track_id = b.track_id /\ a.position_ms = b.position_ms /\ a.cue_type = b.cue_type

\* C15: two markers mapped for the same track that agree on position, type
\* and hotcue slot get the same id whatever their name, length, display order
\* or grid block; two that differ only in the hotcue slot (absent or present
\* included) get different ids.
C15_CueIdDependsOnFour ==
  (f_pc = "compared" /\ SameTrackPositionType(f_out, f_back.cue))
  => (f_out.id = f_back.cue.id <=> f_out.hotcue_slot = f_back.cue.hotcue_slot)

C15_Witness ==
  /\ f_pc = "compared" /\ SameTrackPositionType(f_out, f_back.cue)
  /\ f_out.hotcue_slot = Some(0) /\ f_back.cue.hotcue_slot = Some(0)
  /\ f_out.name # f_back.cue.name
  /\ f_out.length_ms # f_back.cue.length_ms
  /\ f_out.order # f_back.cue.order
  /\ f_in.marker.grid # f_back.marker.grid
  /\ f_out.id = f_back.cue.id

\* ------------------------------------------------------------------------
\* SpecPath: map_system_path_to_traktor applied to drawn absolute paths, and
\* map_traktor_path_to_system applied to what it returns
\* ------------------------------------------------------------------------
\* most directories between the root and the file of a drawn path
MaxDepth == 2

DirNames == {<<"m">>, <<"M", "u", "s", "i", "c">>, <<"j", "v">>}
FileNames == {<<"t", ".", "m", "p", "3">>, <<"x">>}
Volumes == {<<>>, <<"C", ":">>, <<"D", ":">>}

\* volume, then /directory for every directory, then /file
SystemPath(volume, dirs, file) ==
  volume \o Join([i \in 1..Len(dirs) |-> <<"/">> \o dirs[i]], <<>>) \o <<"/">> \o file

InitPath ==
  /\ f_in \in [volume : Volumes, dirs : SeqsUpTo(DirNames, MaxDepth), file : FileNames]
  /\ f_out = None /\ f_back = None /\ f_pc = "ready"
  /\ MergeIdle /\ CueIdle /\ SyncIdle

MapSystemPath ==
  /\ f_pc = "ready"
  /\ f_out' = map_system_path_to_traktor(SystemPath(f_in.volume, f_in.dirs, f_in.file))
  /\ f_pc' = "converted"
  /\ UNCHANGED <<f_in, f_back, mergeVars, cueVars, syncVars>>

\* the returned directory, file and volume are converted back
MapTraktorPath ==
  /\ f_pc = "converted"
  /\ f_back' = map_traktor_path_to_system(f_out.dir, f_out.file, Some(f_out.volume))
  /\ f_pc' = "returned"
  /\ UNCHANGED <<f_in, f_out, mergeVars, cueVars, syncVars>>

NextPath == MapSystemPath \/ MapTraktorPath

SpecPath == InitPath /\ [][NextPath]_vars

\* ------------------------------------------------------------------------
\* Claims on the path conversions (SpecPath)
\* ------------------------------------------------------------------------
\* the Traktor directory string of the directories: /:a/:b/:, or /: for none
TraktorDir(dirs) ==
  <<"/", ":">> \o Join([i \in 1..Len(dirs) |-> dirs[i] \o <<"/", ":">>], <<>>)

\* C18: for an absolute path with or without a drive-letter volume,
\* map_system_path_to_traktor returns the volume apart from a directory string
\* built only from the segments after the volume, and map_traktor_path_to_system
\* applied to the returned directory, file and volume gives the path back.
C18_PathRoundTrip ==
  /\ f_pc \in {"converted", "returned"}
       => /\ f_out.volume = f_in.volume
          /\ f_out.file = f_in.file
          /\ f_out.dir = TraktorDir(f_in.dirs)
  /\ f_pc = "returned" => f_back = SystemPath(f_in.volume, f_in.dirs, f_in.file)

\* ------------------------------------------------------------------------
\* SpecTree: extract_playlists_from_traktor applied to drawn node trees
\* ------------------------------------------------------------------------
\* most nodes of a drawn tree
MaxNodes == 4

PlaylistNode(name, with_data) ==
  [node_type |-> "PLAYLIST", name |-> name, subnodes |-> None,
   playlist |-> IF with_data THEN Some([uuid |-> <<"u", "-">> \o name, entry |-> <<>>])
                ELSE None]

FolderNode(name, nodes) ==
  [node_type |-> "FOLDER", name |-> name, playlist |-> None,
   subnodes |-> Some([nodes |-> nodes])]

\* PLAYLIST nodes, one of them without its PLAYLIST element
PlaylistNodes ==
  {PlaylistNode(<<"H">>, TRUE), PlaylistNode(<<"T">>, TRUE), PlaylistNode(<<"T">>, FALSE)}

FolderNames == {<<"H">>, <<"$", "R">>}

\* the node trees of exactly the given number of nodes, and the sequences of
\* trees that hold the given number of nodes between them
RECURSIVE TreesOfSize(_)
RECURSIVE ForestsOfSize(_)
TreesOfSize(size) ==
  IF size = 1
  THEN PlaylistNodes
         \cup {FolderNode(name, <<>>) : name \in FolderNames}
         \cup {[FolderNode(name, <<>>) EXCEPT !.subnodes = None] : name \in FolderNames}
  ELSE {FolderNode(name, nodes) : name \in FolderNames, nodes \in ForestsOfSize(size - 1)}

ForestsOfSize(size) ==
  IF size = 0 THEN {<<>>}
  ELSE UNION {{<<first>> \o rest : first \in TreesOfSize(k),
                                   rest \in ForestsOfSize(size - k)} : k \in 1..size}

NodeTrees == UNION {TreesOfSize(size) : size \in 1..MaxNodes}

\* $ROOT holding the folder House with the playlist Deep House, and the
\* playlist Techno
HouseTechnoTree ==
  FolderNode(<<"$", "R", "O", "O", "T">>,
    <<FolderNode(<<"H", "o", "u", "s", "e">>,
        <<PlaylistNode(<<"D", "e", "e", "p", " ", "H", "o", "u", "s", "e">>, TRUE)>>),
      PlaylistNode(<<"T", "e", "c", "h", "n", "o">>, TRUE)>>)

InitTree ==
  /\ f_in \in NodeTrees \cup {HouseTechnoTree}
  /\ f_out = None /\ f_back = None /\ f_pc = "ready"
  /\ MergeIdle /\ CueIdle /\ SyncIdle

ExtractPlaylists ==
  /\ f_pc = "ready"
  /\ f_out' = extract_playlists_from_traktor(f_in)
  /\ f_pc' = "extracted"
  /\ UNCHANGED <<f_in, f_back, mergeVars, cueVars, syncVars>>

NextTree == ExtractPlaylists

SpecTree == InitTree /\ [][NextTree]_vars

\* ------------------------------------------------------------------------
\* Claims on the playlist flattening (SpecTree)
\* ------------------------------------------------------------------------
ChildNodes(node) == IF node.subnodes = None THEN <<>> ELSE Unwrap(node.subnodes).nodes

\* the node reached from the root by taking the children numbered in pos
RECURSIVE NodeAt(_, _)
NodeAt(node, pos) ==
  IF pos = <<>> THEN node ELSE NodeAt(ChildNodes(node)[Head(pos)], Tail(pos))

\* the positions of the nodes of the subtree whose root is at prefix
RECURSIVE PositionsFrom(_, _)
PositionsFrom(node, prefix) ==
  {prefix} \cup UNION {PositionsFrom(ChildNodes(node)[i], Append(prefix, i)) :
                         i \in 1..Len(ChildNodes(node))}

\* the positions of the PLAYLIST nodes of the tree
PlaylistPositions(root) ==
  {pos \in PositionsFrom(root, <<>>) : NodeAt(root, pos).node_type = "PLAYLIST"}

\* document order: an ancestor before its descendants, a subtree before the
\* next sibling
DocumentBefore(p, q) ==
  \/ Len(p) < Len(q) /\ SubSeq(q, 1, Len(p)) = p
  \/ \E i \in 1..Len(p) :
       /\ i <= Len(q) /\ p[i] < q[i]
       /\ SubSeq(p, 1, i - 1) = SubSeq(q, 1, i - 1)

DocumentRank(positions, pos) ==
  1 + Cardinality({q \in positions : DocumentBefore(q, pos)})

\* "/" and the names of the folders above the position, joined by "/"
AncestorPath(root, pos) ==
  <<"/">> \o Join([i \in 1..Len(pos) |-> NodeAt(root, SubSeq(pos, 1, i - 1)).name], <<"/">>)

\* C19: extract_playlists_from_traktor returns exactly one playlist per
\* PLAYLIST node, in document order, each with folder_path "/" followed by the
\* names of its ancestor folders joined by "/"; the tree $ROOT -> House ->
\* Deep House, $ROOT -> Techno yields Deep House under /$ROOT/House, then
\* Techno under /$ROOT.
C19_PlaylistFlattening ==
  f_pc = "extracted" =>
    /\ LET positions == PlaylistPositions(f_in)
       IN /\ Len(f_out) = Cardinality(positions)
          /\ \A pos \in positions :
               LET playlist == f_out[DocumentRank(positions, pos)]
               IN /\ playlist.name = NodeAt(f_in, pos).name
                  /\ playlist.id = map_traktor_playlist_to_harmony(NodeAt(f_in, pos)).id
                  /\ playlist.folder_path = Some(AncestorPath(f_in, pos))
    /\ f_in = HouseTechnoTree =>
         /\ Len(f_out) = 2
         /\ f_out[1].name = <<"D", "e", "e", "p", " ", "H", "o", "u", "s", "e">>
         /\ f_out[1].folder_path
              = Some(<<"/", "$", "R", "O", "O", "T", "/", "H", "o", "u", "s", "e">>)
         /\ f_out[2].name = <<"T", "e", "c", "h", "n", "o">>
         /\ f_out[2].folder_path = Some(<<"/", "$", "R", "O", "O", "T">>)

\* a playlist two folders deep is followed by a playlist of the root folder
C19_Witness ==
  /\ f_pc = "extracted" /\ f_in # HouseTechnoTree
  /\ <<1, 1>> \in PlaylistPositions(f_in) /\ <<2>> \in PlaylistPositions(f_in)
  /\ Len(f_out) = 2
  /\ f_out[1].folder_path = Some(<<"/", "$", "R", "/", "H">>)
  /\ f_out[2].folder_path = Some(<<"/", "$", "R">>)
  /\ f_out[1].name # f_out[2].name

\* ------------------------------------------------------------------------
\* SpecRating: map_traktor_rating applied to drawn RANKING attributes
\* ------------------------------------------------------------------------
\* the top of Traktor's rating scale
MaxRanking == 255

\* RANKING attributes that are not numbers
NonNumeric == {<<>>, <<"x">>, <<"5", ".", "5">>, <<" ", "5", "1">>, <<"5", "1", " ">>}

RankingInputs ==
  {None} \cup {Some(NatToString(v)) : v \in 0..MaxRanking}
         \cup {Some(r) : r \in NonNumeric}

InitRating ==
  /\ f_in \in RankingInputs
  /\ f_out = None /\ f_back = None /\ f_pc = "ready"
  /\ MergeIdle /\ CueIdle /\ SyncIdle

MapTraktorRating ==
  /\ f_pc = "ready"
  /\ f_out' = map_traktor_rating(f_in)
  /\ f_pc' = "rated"
  /\ UNCHANGED <<f_in, f_back, mergeVars, cueVars, syncVars>>

NextRating == MapTraktorRating

SpecRating == InitRating /\ [][NextRating]_vars

\* ------------------------------------------------------------------------
\* Claims on map_traktor_rating (SpecRating)
\* ------------------------------------------------------------------------
Distance(a, b) == IF a >= b THEN a - b ELSE b - a

\* C17: map_traktor_rating maps 0, 51, 102, 153, 204, 255 to 0, 1, 2, 3, 4, 5,
\* maps every integer of 0..255 to the star count in 0..5 whose multiple of 51
\* is nearest, and maps an absent or non-numeric ranking to 0.
C17_RatingScale ==
  f_pc = "rated" =>
    /\ \A stars \in 0..5 : f_in = Some(NatToString(51 * stars)) => f_out = stars
    /\ \A v \in 0..MaxRanking :
         f_in = Some(NatToString(v))
           => /\ f_out \in 0..5
              /\ \A stars \in 0..5 : Distance(51 * f_out, v) <= Distance(51 * stars, v)
    /\ (f_in = None \/ \E r \in NonNumeric : f_in = Some(r)) => f_out = 0

\* 128 lies between 102 and 153 and is nearer to 153
C17_Witness ==
  f_pc = "rated" /\ f_in = Some(<<"1", "2", "8">>) /\ f_out = 3

\* ------------------------------------------------------------------------
\* SpecKey: map_traktor_playlist_key_to_path applied to drawn PRIMARYKEY keys
\* ------------------------------------------------------------------------
\* the key Traktor writes: volume, then /:directory for every directory, then
\* /:file
PrimaryKey(volume, dirs, file) ==
  volume \o Join([i \in 1..Len(dirs) |-> <<"/", ":">> \o dirs[i]], <<>>)
         \o <<"/", ":">> \o file

\* C:/:Users/:josev/:Music/:track.mp3 and /:home/:user/:music/:track.mp3
WindowsKeyParts ==
  [volume |-> <<"C", ":">>,
   dirs |-> <<<<"U", "s", "e", "r", "s">>, <<"j", "o", "s", "e", "v">>, <<"M", "u", "s", "i", "c">>>>,
   file |-> <<"t", "r", "a", "c", "k", ".", "m", "p", "3">>]

UnixKeyParts ==
  [volume |-> <<>>,
   dirs |-> <<<<"h", "o", "m", "e">>, <<"u", "s", "e", "r">>, <<"m", "u", "s", "i", "c">>>>,
   file |-> <<"t", "r", "a", "c", "k", ".", "m", "p", "3">>]

InitKey ==
  /\ f_in \in [volume : Volumes, dirs : SeqsUpTo(DirNames, MaxDepth), file : FileNames]
               \cup {WindowsKeyParts, UnixKeyParts}
  /\ f_out = None /\ f_back = None /\ f_pc = "ready"
  /\ MergeIdle /\ CueIdle /\ SyncIdle

MapPlaylistKey ==
  /\ f_pc = "ready"
  /\ f_out' = map_traktor_playlist_key_to_path(PrimaryKey(f_in.volume, f_in.dirs, f_in.file))
  /\ f_pc' = "converted"
  /\ UNCHANGED <<f_in, f_back, mergeVars, cueVars, syncVars>>

NextKey == MapPlaylistKey

SpecKey == InitKey /\ [][NextKey]_vars

\* ------------------------------------------------------------------------
\* Claims on the playlist key conversion (SpecKey)
\* ------------------------------------------------------------------------
\* C20: where / is the path separator, map_traktor_playlist_key_to_path
\* returns the path of the key without its drive-letter volume:
\* C:/:Users/:josev/:Music/:track.mp3 gives /Users/josev/Music/track.mp3 and the
\* key without volume /:home/:user/:music/:track.mp3 gives
\* /home/user/music/track.mp3.
C20_KeyToPathDropsVolume ==
  f_pc = "converted" =>
    /\ f_out = SystemPath(<<>>, f_in.dirs, f_in.file)
    /\ f_in = WindowsKeyParts
         => f_out = <<"/", "U", "s", "e", "r", "s", "/", "j", "o", "s", "e", "v", "/", "M", "u", "s", "i", "c", "/", "t", "r", "a", "c", "k", ".", "m", "p", "3">>
    /\ f_in = UnixKeyParts
         => f_out = <<"/", "h", "o", "m", "e", "/", "u", "s", "e", "r", "/", "m", "u", "s", "i", "c", "/", "t", "r", "a", "c", "k", ".", "m", "p", "3">>

\* C22: for every volume (absent or a drive letter), directory string in /:
\* format and file name without /:, map_traktor_playlist_key_to_path applied to
\* volume + directory + file name equals map_traktor_path_to_system applied to
\* the directory, the file name and the volume.
C22_KeyAgreesWithEntry ==
  f_pc = "converted" =>
    f_out = map_traktor_path_to_system(
              TraktorDir(f_in.dirs), f_in.file,
              IF f_in.volume = <<>> THEN None ELSE Some(f_in.volume))

\* ------------------------------------------------------------------------
\* SpecEntry: map_traktor_entry_to_track applied to drawn collection entries
\* ------------------------------------------------------------------------
\* PLAYTIME_FLOAT: absent, a number, not a number, blank, a {:.6} number
PlaytimeFloats ==
  {None, Some(<<"1", "2", ".", "5">>), Some(<<"a", "b", "c">>), Some(<<>>),
   Some(<<"3", "0", "0", ".", "0", "0", "0", "0", "0", "0">>)}

\* PLAYTIME: absent, a number, not a number
Playtimes == {None, Some(<<"3", "0", "0">>), Some(<<"x">>)}

\* an INFO element that carries only the two playtime attributes
PlaytimeInfo(playtime_float, playtime) ==
  [ranking |-> None, release_date |-> None, bitrate |-> None, genre |-> None,
   comment |-> None, key |-> None, label |-> None, import_date |-> None,
   playtime_float |-> playtime_float, playtime |-> playtime]

EntryInfos ==
  {None} \cup {Some(PlaytimeInfo(pf, p)) : pf \in PlaytimeFloats, p \in Playtimes}

InitEntry ==
  /\ \E file \in {<<"A">>, <<"b">>}, tagged \in BOOLEAN, info \in EntryInfos :
       f_in = [SampleEntry(file, tagged) EXCEPT !.info = info]
  /\ f_out = None /\ f_back = None /\ f_pc = "ready"
  /\ MergeIdle /\ CueIdle /\ SyncIdle

MapTraktorEntry ==
  /\ f_pc = "ready"
  /\ f_out' = map_traktor_entry_to_track(f_in)
  /\ f_pc' = "mapped"
  /\ UNCHANGED <<f_in, f_back, mergeVars, cueVars, syncVars>>

NextEntry == MapTraktorEntry

SpecEntry == InitEntry /\ [][NextEntry]_vars

\* ------------------------------------------------------------------------
\* Claims on the entry conversion (SpecEntry)
\* ------------------------------------------------------------------------
\* seconds, written as a decimal number, in milliseconds; None when not a number
StatedMillis(field) == IF field = None THEN None ELSE ParseF64(Unwrap(field))

\* C27: the duration is taken from the high-precision seconds field when that
\* holds a valid number, otherwise from the integer-seconds field when that
\* holds a valid number, otherwise it is 0; an invalid high-precision value is
\* treated as absent, so the integer-seconds field is still used.
C27_DurationFallback ==
  f_pc = "mapped" =>
    LET high == StatedMillis(InfoAttr(f_in, "playtime_float"))
        whole == StatedMillis(InfoAttr(f_in, "playtime"))
    IN f_out.duration = IF high # None THEN Unwrap(high)
                        ELSE IF whole # None THEN Unwrap(whole)
                        ELSE 0

====
